---- MODULE Spec2Model ----
(***************************************************************************)
(* Model of the GTFS value canonicalizer, src/ole/formatting.py, and of     *)
(* the bus stops, routes and schedules of src/Apurwa/opt.py.               *)
(*                                                                         *)
(* A Python string is a sequence of one-character strings, so that strip,  *)
(* split, lower and the numeric parsers are computed and not assumed.      *)
(* A Python value is a record [k, neg, n, t, s]: k is its type, and the    *)
(* other fields carry the payload of that type (see the constructors).     *)
(* A finite float is a binary64, kept by the text repr prints for it: sign  *)
(* neg, integer part n, fractional digits s (no trailing zero).            *)
(***************************************************************************)
EXTENDS Integers, Sequences, FiniteSets, TLC

\* ------------------------------------------------------------------------
\* Python str primitives
\* ------------------------------------------------------------------------

\* the digits str(n) writes
DigitChars == <<"0", "1", "2", "3", "4", "5", "6", "7", "8", "9">>

\* the decimal digits int() and float() read, one row of ten for each script,
\* a digit's value its place in the row less one: ASCII and the extended
\* Arabic-Indic digits U+06F0 to U+06F9.  The decimal digits of the other
\* scripts are outside the alphabet of the model.
DecimalChars ==
  <<DigitChars,
    <<"۰", "۱", "۲", "۳", "۴", "۵", "۶", "۷", "۸", "۹">>>>

\* the digits str.isdigit() holds for and int() refuses: superscript two,
\* three and one.  The other such digits are outside the alphabet of the
\* model.
SuperscriptChars == {"²", "³", "¹"}

\* the letters str.lower() changes: A to Z and the capitals of Latin-1,
\* U+00C0 to U+00DE.  Letters from U+0100 on are outside the alphabet of the
\* model.
UpperChars == <<"A", "B", "C", "D", "E", "F", "G", "H", "I", "J", "K", "L", "M",
                "N", "O", "P", "Q", "R", "S", "T", "U", "V", "W", "X", "Y", "Z",
                "À", "Á", "Â", "Ã", "Ä", "Å", "Æ", "Ç", "È", "É", "Ê", "Ë", "Ì",
                "Í", "Î", "Ï", "Ð", "Ñ", "Ò", "Ó", "Ô", "Õ", "Ö", "Ø", "Ù", "Ú",
                "Û", "Ü", "Ý", "Þ">>

LowerChars == <<"a", "b", "c", "d", "e", "f", "g", "h", "i", "j", "k", "l", "m",
                "n", "o", "p", "q", "r", "s", "t", "u", "v", "w", "x", "y", "z",
                "à", "á", "â", "ã", "ä", "å", "æ", "ç", "è", "é", "ê", "ë", "ì",
                "í", "î", "ï", "ð", "ñ", "ò", "ó", "ô", "õ", "ö", "ø", "ù", "ú",
                "û", "ü", "ý", "þ">>

\* a decimal digit
IsDecimal(c) == \E r \in DOMAIN DecimalChars : \E i \in 1..10 : DecimalChars[r][i] = c

\* str.isdigit() on one character
IsDigit(c) == IsDecimal(c) \/ c \in SuperscriptChars

\* an ASCII digit: the digits of the texts that pandas is given to parse
IsAsciiDigit(c) == \E i \in 1..10 : DigitChars[i] = c

DigitVal(c) == (CHOOSE i \in 1..10 : \E r \in DOMAIN DecimalChars : DecimalChars[r][i] = c) - 1

\* the characters str.isspace() holds for, up to U+1680: blank, tab, line
\* feed, carriage return, form feed, vertical tab, the four separators
\* U+001C to U+001F, next line, no-break space, ogham space mark.  The
\* spaces from U+2000 on are outside the alphabet of the model.
WhitespaceChars ==
  {" ", "\t", "\n", "\r", "\f", "", "", "", "", "", "", " ", " "}

IsSpace(c) == c \in WhitespaceChars

\* str.lower() on one character
LowerChar(c) ==
  IF \E i \in DOMAIN UpperChars : UpperChars[i] = c
  THEN LowerChars[CHOOSE i \in DOMAIN UpperChars : UpperChars[i] = c]
  ELSE c

\* str.lower()
PyLower(s) == [i \in 1..Len(s) |-> LowerChar(s[i])]

RECURSIVE PyLStrip(_)
PyLStrip(s) ==
  IF s # <<>> /\ IsSpace(Head(s)) THEN PyLStrip(Tail(s)) ELSE s

RECURSIVE PyRStrip(_)
PyRStrip(s) ==
  IF s # <<>> /\ IsSpace(s[Len(s)]) THEN PyRStrip(SubSeq(s, 1, Len(s) - 1)) ELSE s

\* the index of the first character of s outside the set cs, Len(s) + 1 if
\* there is none
FirstOutside(s, cs) ==
  IF \A i \in 1..Len(s) : s[i] \in cs THEN Len(s) + 1
  ELSE CHOOSE i \in 1..Len(s) : s[i] \notin cs /\ \A j \in 1..(i - 1) : s[j] \in cs

\* the index of the last character of s outside the set cs, 0 if there is none
LastOutside(s, cs) ==
  IF \A i \in 1..Len(s) : s[i] \in cs THEN 0
  ELSE CHOOSE i \in 1..Len(s) : s[i] \notin cs /\ \A j \in (i + 1)..Len(s) : s[j] \in cs

\* str.strip()
PyStrip(s) == PyRStrip(PyLStrip(s))

\* the white space int() and float() skip around a literal: the separators
\* U+001C to U+001F are white space for str.strip() and not for them
NumericSpaceChars == WhitespaceChars \ {"", "", "", ""}

NumericStrip(s) ==
  SubSeq(s, FirstOutside(s, NumericSpaceChars), LastOutside(s, NumericSpaceChars))

\* str.rstrip(c) for a one-character argument
RECURSIVE PyRStripChar(_, _)
PyRStripChar(s, c) ==
  IF s # <<>> /\ s[Len(s)] = c THEN PyRStripChar(SubSeq(s, 1, Len(s) - 1), c) ELSE s

\* str.split(sep) for a one-character separator: always at least one part
RECURSIVE PySplit(_, _)
PySplit(s, sep) ==
  IF \E i \in 1..Len(s) : s[i] = sep
  THEN LET i == CHOOSE j \in 1..Len(s) : s[j] = sep /\ \A l \in 1..(j - 1) : s[l] # sep
       IN  <<SubSeq(s, 1, i - 1)>> \o PySplit(SubSeq(s, i + 1, Len(s)), sep)
  ELSE <<s>>

\* str.isdigit(): non-empty and all digits
PyIsDigit(s) == s # <<>> /\ \A i \in 1..Len(s) : IsDigit(s[i])

\* non-empty and all decimal digits
AllDecimal(s) == s # <<>> /\ \A i \in 1..Len(s) : IsDecimal(s[i])

\* non-empty and all ASCII digits
AllAsciiDigits(s) == s # <<>> /\ \A i \in 1..Len(s) : IsAsciiDigit(s[i])

\* value of a non-empty digit string
RECURSIVE DigitsToNat(_)
DigitsToNat(s) ==
  IF s = <<>> THEN 0 ELSE 10 * DigitsToNat(SubSeq(s, 1, Len(s) - 1)) + DigitVal(s[Len(s)])

\* str(n) for a natural number
RECURSIVE NatToStr(_)
NatToStr(n) ==
  IF n < 10 THEN <<DigitChars[n + 1]>> ELSE NatToStr(n \div 10) \o <<DigitChars[(n % 10) + 1]>>

\* str(n) for an int
IntToStr(n) == IF n < 0 THEN <<"-">> \o NatToStr(0 - n) ELSE NatToStr(n)

\* f"{n:02d}": zero-padded to a total width of 2, the sign counting as a character
Fmt02d(n) ==
  IF n < 0 THEN <<"-">> \o NatToStr(0 - n)
  ELSE IF n < 10 THEN <<"0">> \o NatToStr(n)
  ELSE NatToStr(n)

\* digits zero-padded on the left to width w
RECURSIVE ZeroPad(_, _)
ZeroPad(s, w) == IF Len(s) >= w THEN s ELSE ZeroPad(<<"0">> \o s, w)

\* digits zero-padded on the right to width w
RECURSIVE ZeroPadRight(_, _)
ZeroPadRight(s, w) == IF Len(s) >= w THEN s ELSE ZeroPadRight(s \o <<"0">>, w)

\* f"{h:02d}:{m:02d}:{s:02d}"
FmtHMS(h, m, sec) == Fmt02d(h) \o <<":">> \o Fmt02d(m) \o <<":">> \o Fmt02d(sec)

\* ------------------------------------------------------------------------
\* Python values
\* ------------------------------------------------------------------------

Mk(k, neg, n, t, s) == [k |-> k, neg |-> neg, n |-> n, t |-> t, s |-> s]

VNone == Mk("none", FALSE, 0, 0, <<>>)            \* None
VNaN == Mk("float_nan", FALSE, 0, 0, <<>>)        \* float("nan")
VNp64NaN == Mk("np64_nan", FALSE, 0, 0, <<>>)     \* np.float64("nan"), a subclass of float
VNp32NaN == Mk("np32_nan", FALSE, 0, 0, <<>>)     \* np.float32("nan"), not a subclass of float
VNaT == Mk("nat", FALSE, 0, 0, <<>>)              \* pd.NaT, a subclass of datetime
VNA == Mk("na", FALSE, 0, 0, <<>>)                \* pd.NA
VInf(neg) == Mk("float_inf", neg, 0, 0, <<>>)     \* float("inf"), float("-inf")
VStr(s) == Mk("str", FALSE, 0, 0, s)              \* str
VInt(i) == Mk("int", FALSE, i, 0, <<>>)           \* int
VBool(b) == Mk("bool", FALSE, IF b THEN 1 ELSE 0, 0, <<>>)   \* bool, a subclass of int
VFloat(neg, ip, fr) == Mk("float", neg, ip, 0, fr)           \* finite float (-1)^neg * ip.fr
VList(n) == Mk("list", FALSE, n, 0, <<>>)         \* the list [1, ..., n]
VObject == Mk("object", FALSE, 0, 0, <<>>)        \* an instance of a class with no special methods
VTimedelta(sec) == Mk("timedelta", FALSE, 0, sec, <<>>)      \* pd.Timedelta(seconds=sec), sec >= 0
VPyTimedelta(sec) == Mk("pytimedelta", FALSE, 0, sec, <<>>)  \* datetime.timedelta(seconds=sec), no pd.Timedelta
VTimestamp(ymd, sec) == Mk("timestamp", FALSE, ymd, sec, <<>>)  \* pd.Timestamp, date yyyymmdd + seconds of day
VDatetime(ymd, sec) == Mk("datetime", FALSE, ymd, sec, <<>>)    \* datetime.datetime
VDate(ymd) == Mk("date", FALSE, ymd, 0, <<>>)     \* datetime.date
VTime(sec) == Mk("time", FALSE, 0, sec, <<>>)     \* datetime.time, seconds of day
VPoint(id) == Mk("point", FALSE, id, 0, <<>>)     \* geometry object number id (see PointAttrs)

\* isinstance(v, str)
IsStr(v) == v.k = "str"

\* isinstance(v, float)
IsPyFloat(v) == v.k \in {"float", "float_nan", "float_inf", "np64_nan"}

\* isinstance(v, (float, np.floating))
IsAnyFloat(v) == IsPyFloat(v) \/ v.k = "np32_nan"

\* isinstance(v, (int, np.integer))
IsAnyInt(v) == v.k \in {"int", "bool"}

\* math.isnan(v), for a float of any width
MathIsNaN(v) == v.k \in {"float_nan", "np64_nan", "np32_nan"}

\* pd.isna(v) is a scalar for a scalar v and an array for a list
IsNaScalar(v) == v.k \in {"none", "float_nan", "np64_nan", "np32_nan", "nat", "na"}

\* `if pd.isna(v):` raises ValueError when pd.isna(v) is an array of more than
\* one element (the truth value of an array is ambiguous)
IsNaRaises(v) == v.k = "list" /\ v.n > 1

\* ------------------------------------------------------------------------
\* Numeric conversions
\* ------------------------------------------------------------------------

Ok(v) == [raised |-> FALSE, v |-> v]

Raise == [raised |-> TRUE, v |-> VNone]

\* ------------------------------------------------------------------------
\* binary64.  A finite float is kept by the shortest decimal text that reads
\* back as it, the text repr prints: VFloat(neg, ip, fr).  Its value is the
\* binary64 number nearest to that text, kept here as [e, m]: m the 53 bits
\* of the significand, the first of them 1, worth m[1].m[2]...m[53] * 2^e;
\* zero has no bits.  Decimal digits are numbers 0..9 in this section.
\* Integer parts stay below 10^9, magnitudes above 2^-1022.  The operators
\* that walk over bits or digits halve their argument, so that the depth of
\* an evaluation grows with the logarithm of the length; they are functions
\* where a result is handed on from one half to the other.
\* ------------------------------------------------------------------------

Significand == 53

DigitVals(s) == <<>> \o [i \in 1..Len(s) |-> DigitVal(s[i])]

DigitText(d) == <<>> \o [i \in 1..Len(d) |-> DigitChars[d[i] + 1]]

Zeros(k) == <<>> \o [i \in 1..k |-> 0]

IsZeroDigits(d) == \A i \in 1..Len(d) : d[i] = 0

\* the index of the last element of d that is not x, 0 if there is none
LastNot(d, x) ==
  IF \A i \in 1..Len(d) : d[i] = x THEN 0
  ELSE CHOOSE i \in 1..Len(d) : d[i] # x /\ \A j \in (i + 1)..Len(d) : d[j] = x

\* the index of the first element of d that is not x, Len(d) + 1 if there is none
FirstNot(d, x) ==
  IF \A i \in 1..Len(d) : d[i] = x THEN Len(d) + 1
  ELSE CHOOSE i \in 1..Len(d) : d[i] # x /\ \A j \in 1..(i - 1) : d[j] = x

RStripZeros(d) == SubSeq(d, 1, LastNot(d, 0))

LStripZeros(d) == SubSeq(d, FirstNot(d, 0), Len(d))

\* the number of bits of a natural number below 2^30
BitLen(n) == CHOOSE k \in 0..30 : n < 2^k /\ (k = 0 \/ n >= 2^(k - 1))

\* the k lowest bits of a natural number, the highest first
LowBits(n, k) == <<>> \o [i \in 1..k |-> (n \div 2^(k - i)) % 2]

\* the bits of a natural number, the highest first
NatBits(n) == LowBits(n, BitLen(n))

RECURSIVE BitsNat(_)
BitsNat(b) ==
  IF b = <<>> THEN 0
  ELSE IF Len(b) = 1 THEN b[1]
  ELSE BitsNat(SubSeq(b, 1, Len(b) \div 2)) * 2^(Len(b) - Len(b) \div 2)
       + BitsNat(SubSeq(b, Len(b) \div 2 + 1, Len(b)))

\* the value of a string of decimal digits
RECURSIVE DigitsNat(_)
DigitsNat(d) == IF d = <<>> THEN 0 ELSE 10 * DigitsNat(SubSeq(d, 1, Len(d) - 1)) + d[Len(d)]

\* the decimal fraction 0.d doubled: the whole part (0 or 1) and the fraction
FracCarry(d) == IF d # <<>> /\ d[1] >= 5 THEN 1 ELSE 0

DoubledFrac(d) ==
  <<>> \o [i \in 1..Len(d) |->
             (2 * d[i] + (IF i < Len(d) /\ d[i + 1] >= 5 THEN 1 ELSE 0)) % 10]

\* (b + 0.d) / 2 for a bit b, as a decimal fraction
HalvedFrac(b, d) ==
  <<>> \o [i \in 1..(Len(d) + 1) |->
             (10 * ((IF i = 1 THEN b ELSE d[i - 1]) % 2)
              + (IF i <= Len(d) THEN d[i] ELSE 0)) \div 2]

\* the first k bits of the binary expansion of 0.d, and the fraction left
FracSplitJoin(a, b) == [bits |-> a.bits \o b.bits, rest |-> b.rest]

RECURSIVE FracSplitOn(_, _)

FracSplit[d \in Seq(0..9), k \in Nat] ==
  IF k = 0 THEN [bits |-> <<>>, rest |-> d]
  ELSE IF k = 1 THEN [bits |-> <<FracCarry(d)>>, rest |-> DoubledFrac(d)]
  ELSE FracSplitOn(FracSplit[d, k \div 2], k - k \div 2)

\* the k bits after the bits a
FracSplitOn(a, k) == FracSplitJoin(a, FracSplit[a.rest, k])

\* the zero bits before the first 1 of the binary expansion of 0.d, d not zero
RECURSIVE LeadingZeroBits(_)

LeadingZerosOf(fs) ==
  IF IsZeroDigits(fs.bits) THEN Len(fs.bits) + LeadingZeroBits(fs.rest)
  ELSE FirstNot(fs.bits, 0) - 1

LeadingZeroBits(d) == LeadingZerosOf(FracSplit[d, Significand])

\* a string of bits plus one: [carry, bits]
IncBitsAt(m, j) ==
  [carry |-> j = 0,
   bits |-> <<>> \o [i \in 1..Len(m) |-> IF i < j THEN m[i] ELSE IF i = j THEN 1 ELSE 0]]

IncBits(m) == IncBitsAt(m, LastNot(m, 1))

Zero64 == [e |-> 0, m |-> <<>>]

Carried(e, inc) ==
  IF inc.carry THEN [e |-> e + 1, m |-> <<1>> \o SubSeq(inc.bits, 2, Len(inc.bits))]
  ELSE [e |-> e, m |-> inc.bits]

\* round to nearest, ties to even: guard is the bit after the 53 kept,
\* sticky whether anything follows it
RoundedBits(e, m, guard, sticky) ==
  IF guard = 1 /\ (sticky \/ m[Significand] = 1) THEN Carried(e, IncBits(m))
  ELSE [e |-> e, m |-> m]

\* ib the bits of the integer part, z the zero bits skipped, fs the bits of
\* the fraction
BitsOfSplit(ib, z, fs) ==
  RoundedBits(IF ib # <<>> THEN Len(ib) - 1 ELSE 0 - (z + 1),
              ib \o SubSeq(fs.bits, z + 1, Len(fs.bits)),
              FracCarry(fs.rest), ~IsZeroDigits(DoubledFrac(fs.rest)))

BitsOfNonZero(ib, z, d) == BitsOfSplit(ib, z, FracSplit[d, z + Significand - Len(ib)])

\* the binary64 nearest to the decimal ip.d
BitsOfText(ip, d) ==
  IF ip = 0 /\ IsZeroDigits(d) THEN Zero64
  ELSE BitsOfNonZero(NatBits(ip), IF ip = 0 THEN LeadingZeroBits(d) ELSE 0, d)

\* the decimal fraction worth 0.b1 b2 ... bn in binary plus 0.acc / 2^n
FracOfBitsOnto[b \in Seq(0..1), acc \in Seq(0..9)] ==
  IF b = <<>> THEN acc
  ELSE IF Len(b) = 1 THEN HalvedFrac(b[1], acc)
  ELSE FracOfBitsOnto[SubSeq(b, 1, Len(b) \div 2),
                      FracOfBitsOnto[SubSeq(b, Len(b) \div 2 + 1, Len(b)), acc]]

FracOfBits(b) == FracOfBitsOnto[b, <<>>]

\* the exact decimal expansion of a binary64: [n, s], n.s
ExactOfBits(b) ==
  IF b.m = <<>> THEN [n |-> 0, s |-> <<>>]
  ELSE IF b.e >= 0
  THEN [n |-> BitsNat(SubSeq(b.m, 1, b.e + 1)),
        s |-> FracOfBits(RStripZeros(SubSeq(b.m, b.e + 2, Significand)))]
  ELSE [n |-> 0, s |-> FracOfBits(Zeros(0 - b.e - 1) \o RStripZeros(b.m))]

\* the binary64 of the float f
BitsOf(f) == BitsOfText(f.n, DigitVals(f.s))

\* the exact decimal expansion of the float f
Exact(f) == ExactOfBits(BitsOf(f))

\* a string of decimal digits plus one, a carry making it one digit longer
IncDigitValsAt(d, j) ==
  (IF j = 0 THEN <<1>> ELSE <<>>)
  \o [i \in 1..Len(d) |-> IF i < j THEN d[i] ELSE IF i = j THEN d[i] + 1 ELSE 0]

IncDigitVals(d) == IncDigitValsAt(d, LastNot(d, 9))

\* whether the digits rest, cut off after the digit last, round it up
RoundsUpVals(last, rest) ==
  /\ rest # <<>>
  /\ \/ rest[1] > 5
     \/ rest[1] = 5 /\ ~IsZeroDigits(Tail(rest))
     \/ rest[1] = 5 /\ IsZeroDigits(Tail(rest)) /\ last % 2 = 1

\* the decimal [n, s] of the digits all with w digits of fraction
TextOfDigits(all, w) ==
  IF Len(all) >= w
  THEN [n |-> DigitsNat(SubSeq(all, 1, Len(all) - w)),
        s |-> RStripZeros(SubSeq(all, Len(all) - w + 1, Len(all)))]
  ELSE [n |-> 0, s |-> RStripZeros(Zeros(w - Len(all)) \o all)]

\* the digits keep (a prefix of a text with w digits of fraction and len
\* digits in all), filled with zeros up to the decimal point
CutText(keep, len, w) ==
  IF len - Len(keep) > w
  THEN TextOfDigits(keep \o Zeros(len - w - Len(keep)), 0)
  ELSE TextOfDigits(keep, w - (len - Len(keep)))

\* kept digits plus one; a carry moves the decimal point with it
CutTextUp(keep, inc, len, w) == CutText(inc, len + (Len(inc) - Len(keep)), w)

RoundTrips(t, b) == BitsOfText(t.n, t.s) = b

\* the significant digits every binary64 keeps: a text of that many digits
\* or fewer is the shortest text of the float it reads as (DBL_DIG)
ReprDigits == 15

\* the shortest text that reads back as b, from p significant digits on:
\* all the digits of the exact expansion (the first not zero), w of them
\* after the decimal point.  A text cut is kept without its last zeros.
RECURSIVE ShortestFrom(_, _, _, _)

ShortestOf(all, w, b, p, down, up, nearestUp) ==
  IF RoundTrips(IF nearestUp THEN up ELSE down, b) THEN (IF nearestUp THEN up ELSE down)
  ELSE IF RoundTrips(IF nearestUp THEN down ELSE up, b) THEN (IF nearestUp THEN down ELSE up)
  ELSE ShortestFrom(all, w, b, p + 1)

ShortestFrom(all, w, b, p) ==
  IF p >= Len(all) THEN TextOfDigits(all, w)
  ELSE ShortestOf(all, w, b, p,
                  CutText(SubSeq(all, 1, p), Len(all), w),
                  CutTextUp(SubSeq(all, 1, p), IncDigitVals(SubSeq(all, 1, p)), Len(all), w),
                  RoundsUpVals(all[p], SubSeq(all, p + 1, Len(all))))

ShortestOfExact(x, b) ==
  ShortestFrom(LStripZeros(DigitVals(NatToStr(x.n)) \o x.s),
               Len(x.s), b, ReprDigits)

\* repr of a binary64, as the decimal [n, s]
ReprOfBits(b) ==
  IF b.m = <<>> THEN [n |-> 0, s |-> <<>>] ELSE ShortestOfExact(ExactOfBits(b), b)

\* the float (-1)^neg * b
FloatOfRepr(neg, r) == VFloat(neg, r.n, DigitText(r.s))

FloatOfBits(neg, b) == FloatOfRepr(neg, ReprOfBits(b))

\* significant digits of the decimal ip.d
SigDigits(ip, d) == Len(RStripZeros(LStripZeros(DigitVals(NatToStr(ip)) \o d)))

\* the float nearest to the decimal (-1)^neg * ip.d: a text of at most 15
\* significant digits is the shortest text of its float
FloatOfText(neg, ip, d) ==
  IF SigDigits(ip, d) <= ReprDigits THEN VFloat(neg, ip, DigitText(RStripZeros(d)))
  ELSE FloatOfBits(neg, BitsOfText(ip, d))

\* optional sign of a numeric literal: [neg, rest]
SplitSign(s) ==
  IF s # <<>> /\ s[1] \in {"+", "-"}
  THEN [neg |-> s[1] = "-", rest |-> Tail(s)]
  ELSE [neg |-> FALSE, rest |-> s]

NotUnderscore(c) == c # "_"

\* the underscores of a numeric literal each stand between two digits
UnderscoresOk(s) ==
  \A i \in 1..Len(s) :
    s[i] = "_" => (i > 1 /\ i < Len(s) /\ IsDecimal(s[i - 1]) /\ IsDecimal(s[i + 1]))

\* the digits of a group of digits and single underscores, raised when it
\* is no such group
DigitGroup(s) ==
  IF UnderscoresOk(s) /\ AllDecimal(SelectSeq(s, NotUnderscore))
  THEN [raised |-> FALSE, digits |-> SelectSeq(s, NotUnderscore)]
  ELSE [raised |-> TRUE, digits |-> <<>>]

\* int(s) for a str: surrounding whitespace, an optional sign, decimal
\* digits with single underscores between them
IntOfDigits(neg, g) ==
  IF g.raised THEN Raise
  ELSE Ok(VInt((IF neg THEN -1 ELSE 1) * DigitsToNat(g.digits)))

IntOfSigned(p) == IntOfDigits(p.neg, DigitGroup(p.rest))

PyIntOfStr(s) == IntOfSigned(SplitSign(NumericStrip(s)))

\* a float literal cut at its exponent mark: [mant, exp], exp <<"0">> when
\* there is no mark
SplitExponent(s) ==
  IF \E i \in 1..Len(s) : s[i] \in {"e", "E"}
  THEN LET i == CHOOSE j \in 1..Len(s) : s[j] \in {"e", "E"} /\ \A l \in 1..(j - 1) : s[l] \notin {"e", "E"}
       IN  [mant |-> SubSeq(s, 1, i - 1), exp |-> SubSeq(s, i + 1, Len(s))]
  ELSE [mant |-> s, exp |-> <<"0">>]

\* a group of digits that may be empty
DigitGroupOrNone(s) == IF s = <<>> THEN [raised |-> FALSE, digits |-> <<>>] ELSE DigitGroup(s)

\* the decimal ip.fr * 10^e, its decimal point moved by e digits: [n, s]
ShiftedDecimal(all, pos) ==
  IF pos <= 0 THEN [n |-> 0, s |-> Zeros(0 - pos) \o all]
  ELSE IF pos >= Len(all) THEN [n |-> DigitsNat(all \o Zeros(pos - Len(all))), s |-> <<>>]
  ELSE [n |-> DigitsNat(SubSeq(all, 1, pos)), s |-> SubSeq(all, pos + 1, Len(all))]

FloatOfDecimal(neg, x) == Ok(FloatOfText(neg, x.n, x.s))

\* the finite literal: digits, an optional point and more digits, an
\* optional exponent; ip and fr the groups of digits, e the exponent
FloatOfDigits(neg, ip, fr, e) ==
  IF ip.raised \/ fr.raised \/ e.raised \/ (ip.digits = <<>> /\ fr.digits = <<>>) THEN Raise
  ELSE FloatOfDecimal(neg, ShiftedDecimal(DigitVals(ip.digits \o fr.digits),
                                          Len(ip.digits) + e.v.n))

\* float(s) for a str: surrounding whitespace, an optional sign, then nan,
\* inf, infinity (any case) or a decimal literal, read as the nearest
\* binary64.  The literals read have an integer part below 10^9.
FloatOfParts(neg, low, parts, exp) ==
  IF low = <<"n", "a", "n">> THEN Ok(VNaN)
  ELSE IF low \in {<<"i", "n", "f">>, <<"i", "n", "f", "i", "n", "i", "t", "y">>}
  THEN Ok(VInf(neg))
  ELSE IF Len(parts) > 2 THEN Raise
  ELSE FloatOfDigits(neg, DigitGroupOrNone(parts[1]),
                     DigitGroupOrNone(IF Len(parts) = 2 THEN parts[2] ELSE <<>>),
                     IntOfSigned(SplitSign(exp)))

FloatOfLiteral(neg, low, lit) == FloatOfParts(neg, low, PySplit(lit.mant, "."), lit.exp)

FloatOfSigned(p) ==
  IF UnderscoresOk(p.rest) THEN FloatOfLiteral(p.neg, PyLower(p.rest), SplitExponent(p.rest))
  ELSE Raise

PyFloatOfStr(s) == FloatOfSigned(SplitSign(NumericStrip(s)))

\* float(v)
PyFloat(v) ==
  CASE v.k \in {"float", "float_nan", "float_inf"} -> Ok(v)
    [] v.k \in {"np64_nan", "np32_nan"} -> Ok(VNaN)
    [] v.k \in {"int", "bool"} -> Ok(VFloat(v.n < 0, IF v.n < 0 THEN 0 - v.n ELSE v.n, <<>>))
    [] v.k = "str" -> PyFloatOfStr(v.s)
    [] OTHER -> Raise                      \* TypeError

\* round(f) with halves rounded away from zero
RoundHalfAway(f) ==
  LET up == f.s # <<>> /\ DigitVal(f.s[1]) >= 5
      mag == IF up THEN f.n + 1 ELSE f.n
  IN  IF f.neg THEN 0 - mag ELSE mag

\* round(f) for a finite float: nearest integer, halves to even
RoundHalfEven(f) ==
  LET up == /\ f.s # <<>>
            /\ \/ DigitVal(f.s[1]) > 5
               \/ DigitVal(f.s[1]) = 5 /\ Len(f.s) > 1
               \/ DigitVal(f.s[1]) = 5 /\ Len(f.s) = 1 /\ f.n % 2 = 1
      mag == IF up THEN f.n + 1 ELSE f.n
  IN  IF f.neg THEN 0 - mag ELSE mag

\* int(round(f)) for a float f: ValueError on nan, OverflowError on inf
PyIntRound(f) ==
  IF f.k = "float" THEN Ok(VInt(RoundHalfEven(f))) ELSE Raise

\* int(round(f)) where the code has int(f): the fraction rounded, not cut
PyIntTruncRounds(f) ==
  IF f.k = "float" THEN Ok(VInt(RoundHalfEven(f))) ELSE Raise

\* int(f) for a float f: truncation toward zero
PyIntTrunc(f) ==
  IF f.k = "float" THEN Ok(VInt(IF f.neg THEN 0 - f.n ELSE f.n)) ELSE Raise

\* a digit string plus one: [carry, digits]
RECURSIVE IncDigits(_)
IncDigits(s) ==
  IF s = <<>> THEN [carry |-> TRUE, digits |-> <<>>]
  ELSE LET last == DigitVal(s[Len(s)])
           init == SubSeq(s, 1, Len(s) - 1)
       IN  IF last < 9
           THEN [carry |-> FALSE, digits |-> init \o <<DigitChars[last + 2]>>]
           ELSE LET r == IncDigits(init)
                IN  [carry |-> r.carry, digits |-> r.digits \o <<"0">>]

FloatPrecision == 12

\* f"{f:.12f}" for a float f: fixed point, 12 fractional digits, never an
\* exponent; the digits are those of the exact value of the binary64, and a
\* 13th digit and beyond round to nearest (a tie goes to the even digit)
\* whether the digits `rest` beyond the kept ones round the last kept digit up
RoundsUp(last, rest) ==
  /\ rest # <<>>
  /\ \/ DigitVal(rest[1]) > 5
     \/ DigitVal(rest[1]) = 5 /\ Len(rest) > 1
     \/ DigitVal(rest[1]) = 5 /\ Len(rest) = 1 /\ DigitVal(last) % 2 = 1

FixedDigits(neg, ip, keep, up, inc) ==
  (IF neg THEN <<"-">> ELSE <<>>)
  \o NatToStr(IF up /\ inc.carry THEN ip + 1 ELSE ip) \o <<".">>
  \o (IF up THEN inc.digits ELSE keep)

FixedKeep(neg, ip, keep, rest) ==
  FixedDigits(neg, ip, keep, RoundsUp(keep[FloatPrecision], rest), IncDigits(keep))

\* x the exact decimal expansion of the float: n.s, s without trailing zero
FixedOfExact(neg, x) ==
  FixedKeep(neg, x.n, SubSeq(ZeroPadRight(DigitText(x.s), FloatPrecision), 1, FloatPrecision),
            DigitText(SubSeq(x.s, FloatPrecision + 1, Len(x.s))))

Fixed12(f) ==
  IF f.k = "float_nan" THEN <<"n", "a", "n">>
  ELSE IF f.k = "float_inf"
  THEN (IF f.neg THEN <<"-">> ELSE <<>>) \o <<"i", "n", "f">>
  ELSE FixedOfExact(f.neg, Exact(f))

\* ------------------------------------------------------------------------
\* Dates, times, geometry objects, str(v)
\* ------------------------------------------------------------------------

\* "HH:MM:SS" of a number of seconds: total // 3600, (total % 3600) // 60,
\* total % 60 with Python's floor division
HMSOfSeconds(total) == FmtHMS(total \div 3600, (total % 3600) \div 60, total % 60)

\* strftime("%Y%m%d") of a date yyyymmdd (years of four digits)
StrfYmd(ymd) == ZeroPad(NatToStr(ymd), 8)

\* date.isoformat(): "YYYY-MM-DD"
IsoDate(ymd) ==
  LET d == StrfYmd(ymd)
  IN  SubSeq(d, 1, 4) \o <<"-">> \o SubSeq(d, 5, 6) \o <<"-">> \o SubSeq(d, 7, 8)

DaysInMonth(y, m) ==
  IF m \in {4, 6, 9, 11} THEN 30
  ELSE IF m = 2 THEN (IF (y % 4 = 0 /\ y % 100 # 0) \/ y % 400 = 0 THEN 29 ELSE 28)
  ELSE 31

\* the geometry objects of the inputs, by number: the attributes each exposes
\*   1  a shapely Point(11.2, 49.3): x and y
\*   2  an object with lon = 11.2 and lat = 49.3 only
\*   3  an object with no coordinate attribute
\*   4  an object with x = 1.5, y = 2.5, lon = 3.5, lat = 4.5
PointAttrs(id) ==
  CASE id = 1 -> [a \in {"x", "y"} |->
                    IF a = "x" THEN VFloat(FALSE, 11, <<"2">>) ELSE VFloat(FALSE, 49, <<"3">>)]
    [] id = 2 -> [a \in {"lon", "lat"} |->
                    IF a = "lon" THEN VFloat(FALSE, 11, <<"2">>) ELSE VFloat(FALSE, 49, <<"3">>)]
    [] id = 4 -> [a \in {"x", "y", "lon", "lat"} |->
                    CASE a = "x" -> VFloat(FALSE, 1, <<"5">>)
                      [] a = "y" -> VFloat(FALSE, 2, <<"5">>)
                      [] a = "lon" -> VFloat(FALSE, 3, <<"5">>)
                      [] a = "lat" -> VFloat(FALSE, 4, <<"5">>)]
    [] OTHER -> [a \in {} |-> VNone]

\* hasattr(g, a)
HasAttr(g, a) == g.k = "point" /\ a \in DOMAIN PointAttrs(g.n)

\* getattr(g, a)
GetAttr(g, a) == PointAttrs(g.n)[a]

\* str(list(range(1, n + 1))): "[1, 2]"
RECURSIVE ListItems(_)
ListItems(n) ==
  IF n = 0 THEN <<>>
  ELSE IF n = 1 THEN NatToStr(n)
  ELSE ListItems(n - 1) \o <<",", " ">> \o NatToStr(n)

\* repr of a finite float whose digits d start at the decimal exponent -e:
\* "d[.ddd]e-XX", the exponent of two digits at least
FloatReprExp(d, e) ==
  <<d[1]>> \o (IF Len(d) > 1 THEN <<".">> \o Tail(d) ELSE <<>>) \o <<"e", "-">> \o Fmt02d(e)

\* repr of the magnitude of a finite float (below 10^16): the shortest
\* digits that read back as it, with an exponent below 0.0001
FloatReprMag(f, z) ==
  IF f.n = 0 /\ z >= 4 /\ z < Len(f.s)
  THEN FloatReprExp(SubSeq(f.s, z + 1, Len(f.s)), z + 1)
  ELSE NatToStr(f.n) \o <<".">> \o (IF f.s = <<>> THEN <<"0">> ELSE f.s)

\* str(f) and repr(f) of a finite float
FloatRepr(f) ==
  (IF f.neg THEN <<"-">> ELSE <<>>) \o FloatReprMag(f, FirstNot(f.s, "0") - 1)

\* str(v).  The text of an object without __str__ holds its address; it is
\* abstracted to "<object N>".
PyStrChars(v) ==
  CASE v.k = "none" -> <<"N", "o", "n", "e">>
    [] v.k \in {"float_nan", "np64_nan", "np32_nan"} -> <<"n", "a", "n">>
    [] v.k = "nat" -> <<"N", "a", "T">>
    [] v.k = "na" -> <<"<", "N", "A", ">">>
    [] v.k = "float_inf" -> (IF v.neg THEN <<"-">> ELSE <<>>) \o <<"i", "n", "f">>
    [] v.k = "str" -> v.s
    [] v.k = "int" -> IntToStr(v.n)
    [] v.k = "bool" -> IF v.n = 1 THEN <<"T", "r", "u", "e">> ELSE <<"F", "a", "l", "s", "e">>
    [] v.k = "float" -> FloatRepr(v)
    [] v.k = "list" -> <<"[">> \o ListItems(v.n) \o <<"]">>
    [] v.k = "timedelta" -> NatToStr(v.t \div 86400) \o <<" ", "d", "a", "y", "s", " ">>
                            \o HMSOfSeconds(v.t % 86400)
    \* str(datetime.timedelta): "[D day[s], ]H:MM:SS", the hours not padded
    [] v.k = "pytimedelta" ->
         (IF v.t < 86400 THEN <<>>
          ELSE NatToStr(v.t \div 86400)
               \o (IF v.t \div 86400 = 1 THEN <<" ", "d", "a", "y">> ELSE <<" ", "d", "a", "y", "s">>)
               \o <<",", " ">>)
         \o NatToStr((v.t % 86400) \div 3600) \o <<":">> \o Fmt02d((v.t % 3600) \div 60)
         \o <<":">> \o Fmt02d(v.t % 60)
    [] v.k \in {"timestamp", "datetime"} -> IsoDate(v.n) \o <<" ">> \o HMSOfSeconds(v.t)
    [] v.k = "date" -> IsoDate(v.n)
    [] v.k = "time" -> HMSOfSeconds(v.t)
    [] v.k = "point" /\ v.n = 1 ->
         <<"P", "O", "I", "N", "T", " ", "(", "1", "1", ".", "2", " ", "4", "9", ".", "3", ")">>
    [] OTHER -> <<"<", "o", "b", "j", "e", "c", "t", " ">> \o NatToStr(v.n) \o <<">">>

PyStr(v) == VStr(PyStrChars(v))

\* ------------------------------------------------------------------------
\* pandas parsers
\* ------------------------------------------------------------------------

NatStrings == {<<"N", "a", "T">>, <<"n", "a", "t">>, <<"N", "A", "T">>,
               <<"n", "a", "n">>, <<"N", "a", "N">>, <<"N", "A", "N">>}

\* seconds of a duration unit of pd.to_timedelta, 0 for no unit
UnitSeconds(u) ==
  CASE u \in {<<"d">>, <<"d", "a", "y">>, <<"d", "a", "y", "s">>} -> 86400
    [] u \in {<<"h">>, <<"h", "o", "u", "r">>, <<"h", "o", "u", "r", "s">>} -> 3600
    [] u \in {<<"m">>, <<"m", "i", "n">>, <<"m", "i", "n", "u", "t", "e", "s">>} -> 60
    [] u \in {<<"s">>, <<"s", "e", "c">>, <<"s", "e", "c", "o", "n", "d", "s">>} -> 1
    [] OTHER -> 0

\* the blanks at the start of s taken off; the parser of pd.to_timedelta
\* skips blanks and commas and no other whitespace
RECURSIVE LStripBlanks(_)
LStripBlanks(s) == IF s # <<>> /\ Head(s) = " " THEN LStripBlanks(Tail(s)) ELSE s

RECURSIVE RStripBlanks(_)
RStripBlanks(s) ==
  IF s # <<>> /\ s[Len(s)] = " " THEN RStripBlanks(SubSeq(s, 1, Len(s) - 1)) ELSE s

StripBlanks(s) == RStripBlanks(LStripBlanks(s))

\* length of the longest prefix of digits
RECURSIVE DigitPrefixLen(_)
DigitPrefixLen(s) ==
  IF s # <<>> /\ IsAsciiDigit(Head(s)) THEN 1 + DigitPrefixLen(Tail(s)) ELSE 0

\* "<digits><unit>" and "<digits> <unit>" give that many units; bare digits
\* are nanoseconds (whole seconds: the digits left of the last nine); a
\* string that starts with no digit, or whose digits are followed by anything
\* else, raises ValueError.
DurationOfUnits(s) ==
  LET k == DigitPrefixLen(s)
      num == SubSeq(s, 1, k)
      unit == LStripBlanks(SubSeq(s, k + 1, Len(s)))
  IN  IF k = 0 THEN Raise
      ELSE IF unit = <<>>
      THEN Ok(VTimedelta(IF k <= 9 THEN 0 ELSE DigitsToNat(SubSeq(num, 1, k - 9))))
      ELSE IF UnitSeconds(unit) > 0 THEN Ok(VTimedelta(DigitsToNat(num) * UnitSeconds(unit)))
      ELSE Raise

\* "<h>:<m>:<s>" of digits, as the clock part of a duration
DurationOfClock(parts) ==
  IF Len(parts) = 3 /\ \A i \in 1..3 : AllAsciiDigits(parts[i])
  THEN Ok(VTimedelta(DigitsToNat(parts[1]) * 3600 + DigitsToNat(parts[2]) * 60
                     + DigitsToNat(parts[3])))
  ELSE Raise

\* the sum of a units part and a clock part
DurationSum(a, b) ==
  IF a.raised \/ b.raised THEN Raise ELSE Ok(VTimedelta(a.v.t + b.v.t))

\* pd.to_timedelta(s) for a stripped, non-empty str, on the forms of the
\* inputs: a NaT string gives NaT; the parser skips blanks and commas, so
\* "<digits> <unit>, <h>:<m>:<s>" (the text of a datetime.timedelta) is the
\* units plus the clock; a string without comma is read by DurationOfUnits.
PdToTimedelta(s) ==
  IF s \in NatStrings THEN Ok(VNaT)
  ELSE IF Len(PySplit(s, ",")) = 2
  THEN DurationSum(DurationOfUnits(StripBlanks(PySplit(s, ",")[1])),
                   DurationOfClock(PySplit(StripBlanks(PySplit(s, ",")[2]), ":")))
  ELSE DurationOfUnits(s)

\* the days of the clock, as yyyymmdd: pd.to_datetime sets a text that holds
\* a time of day and no date on the day datetime.now() gives when it is
\* called, so the day is an input of the date rule beside the cell
Todays == {20240307, 20240308}

\* the day after the day d
NextDay(d) ==
  IF d % 100 < DaysInMonth(d \div 10000, (d \div 100) % 100) THEN d + 1
  ELSE IF (d \div 100) % 100 < 12 THEN (d \div 100 + 1) * 100 + 1
  ELSE (d \div 10000 + 1) * 10000 + 101

\* the Timestamp of the parts of a text when they are a year of four, a
\* month of two and a day of two ASCII digits and a day of the calendar
DateOfParts(parts) ==
  LET y == DigitsToNat(parts[1])
      m == DigitsToNat(parts[2])
      d == DigitsToNat(parts[3])
  IN  IF /\ Len(parts) = 3
         /\ Len(parts[1]) = 4 /\ Len(parts[2]) = 2 /\ Len(parts[3]) = 2
         /\ \A i \in 1..3 : AllAsciiDigits(parts[i])
         /\ y >= 1 /\ m \in 1..12 /\ d \in 1..DaysInMonth(y, m)
      THEN Ok(VTimestamp(y * 10000 + m * 100 + d, 0))
      ELSE Raise

\* a text "HH:MM:SS" of a time of day, which the parser reads on the day
\* the clock gives
TimeOfDayOfParts(parts, day) ==
  LET h == DigitsToNat(parts[1])
      m == DigitsToNat(parts[2])
      sec == DigitsToNat(parts[3])
  IN  IF /\ Len(parts) = 3
         /\ \A i \in 1..3 : Len(parts[i]) = 2 /\ AllAsciiDigits(parts[i])
         /\ h <= 23 /\ m <= 59 /\ sec <= 59
      THEN Ok(VTimestamp(day, h * 3600 + m * 60 + sec))
      ELSE Raise

\* pd.to_datetime(s, errors="raise") for a stripped, non-empty str that is
\* not 8 digits, on the forms of the inputs: a NaT string gives NaT; a
\* calendar date "YYYY-MM-DD" or "YYYY/MM/DD" gives its Timestamp; a time of
\* day "HH:MM:SS" gives that time on the day the clock gives at the call;
\* the other texts of the inputs (words, the text of a number, of a list, of
\* an object, of a duration, of a point) raise.
PdToDatetime(s, day) ==
  IF s \in NatStrings THEN Ok(VNaT)
  ELSE IF ~DateOfParts(PySplit(s, "-")).raised THEN DateOfParts(PySplit(s, "-"))
  ELSE IF ~DateOfParts(PySplit(s, "/")).raised THEN DateOfParts(PySplit(s, "/"))
  ELSE TimeOfDayOfParts(PySplit(s, ":"), day)

\* ------------------------------------------------------------------------
\* The six column rules.  Each returns [raised, v]: raised when the Python
\* function lets an exception escape, else v is the value returned.
\* ------------------------------------------------------------------------

EmptyStr == VStr(<<>>)

\* the 'H:M:S' branch carrying minutes and seconds over, as the numeric path does
TimeOfHMSCarries(h, m, f) ==
  IF h.raised \/ m.raised \/ f.raised \/ f.v.k # "float" THEN Raise
  ELSE Ok(VStr(HMSOfSeconds(h.v.n * 3600 + m.v.n * 60 + PyIntTrunc(f.v).v.n)))

\* lines 19-30: the 'H:M:S' branch; raised stands for "fall through"
TimeOfHMS(h, m, f) ==
  IF h.raised \/ m.raised \/ f.raised \/ f.v.k # "float" THEN Raise
  ELSE Ok(VStr(FmtHMS(h.v.n, m.v.n, PyIntTrunc(f.v).v.n)))

TimeOfParts(parts) ==
  IF Len(parts) = 3 /\ \A i \in 1..3 : parts[i] # <<>>
  THEN TimeOfHMS(PyIntOfStr(parts[1]), PyIntOfStr(parts[2]), PyFloatOfStr(parts[3]))
  ELSE Raise

TimeOfHMSParts(s) == TimeOfParts(PySplit(s, ":"))

\* lines 34-40, td the outcome of pd.to_timedelta(s)
TimeOfTimedelta(s, td) ==
  IF td.raised THEN VStr(s)
  ELSE IF td.v.k = "nat" THEN VStr(s)                 \* int(nan) raises ValueError
  ELSE VStr(HMSOfSeconds(td.v.t))

\* lines 31-40: the pandas duration branch of a str
TimeOfDurationStr(s) == Ok(TimeOfTimedelta(s, PdToTimedelta(s)))

\* lines 17-40, s the stripped string and hms the outcome of the H:M:S branch
TimeOfStr(s, hms) ==
  IF s = <<>> THEN Ok(EmptyStr)
  ELSE IF ~hms.raised THEN hms
  ELSE TimeOfDurationStr(s)

\* lines 69-73, total the outcome of int(round(v))
TimeOfRounded(total) ==
  IF total.raised THEN Raise                          \* int(round(inf)): OverflowError
  ELSE Ok(VStr(HMSOfSeconds(total.v.n)))

\* lines 15-40
TimeOfStripped(s) == TimeOfStr(s, TimeOfHMSParts(s))

_to_gtfs_time(v) ==
  IF v.k = "none" \/ (IsPyFloat(v) /\ MathIsNaN(v)) THEN Ok(EmptyStr)
  ELSE IF IsStr(v) THEN TimeOfStripped(PyStrip(v.s))
  ELSE IF v.k = "timedelta" THEN Ok(VStr(HMSOfSeconds(v.t)))
  ELSE IF v.k \in {"timestamp", "datetime", "time"} THEN Ok(VStr(HMSOfSeconds(v.t)))
  \* pd.NaT is a datetime whose time() raises ValueError: caught, falls through
  ELSE IF IsAnyInt(v) THEN Ok(VStr(HMSOfSeconds(v.n)))
  ELSE IF IsAnyFloat(v) /\ ~MathIsNaN(v) THEN TimeOfRounded(PyIntRound(v))
  ELSE Ok(PyStr(v))

\* lines 92-96 with the format written "%Y-%m-%d"
DateOfTimestampDashed(s, ts) ==
  IF ts.raised THEN VStr(s)
  ELSE IF ts.v.k = "nat" THEN VStr(s)
  ELSE VStr(IsoDate(ts.v.n))

\* lines 92-96, ts the outcome of pd.to_datetime(s)
DateOfTimestamp(s, ts) ==
  IF ts.raised THEN VStr(s)
  ELSE IF ts.v.k = "nat" THEN VStr(s)                 \* NaT.strftime raises ValueError
  ELSE VStr(StrfYmd(ts.v.n))

\* lines 86-96, s the stripped string
DateOfStripped(s, day) ==
  IF s = <<>> THEN Ok(EmptyStr)
  ELSE IF Len(s) = 8 /\ PyIsDigit(s) THEN Ok(VStr(s))
  ELSE Ok(DateOfTimestamp(s, PdToDatetime(s, day)))

\* lines 77-107, day the day the clock gives while the cell is converted
_to_gtfs_date(v, day) ==
  IF v.k = "none" \/ (IsPyFloat(v) /\ MathIsNaN(v)) THEN Ok(EmptyStr)
  ELSE IF IsStr(v) THEN DateOfStripped(PyStrip(v.s), day)
  ELSE IF v.k \in {"timestamp", "datetime", "date"} THEN Ok(VStr(StrfYmd(v.n)))
  \* pd.NaT is a datetime whose strftime raises ValueError: caught, falls through
  ELSE Ok(PyStr(v))

TruthyTokens == {<<"t", "r", "u", "e">>, <<"t">>, <<"y", "e", "s">>, <<"y">>}

FalsyTokens == {<<"f", "a", "l", "s", "e">>, <<"f">>, <<"n", "o">>, <<"n">>}

\* _to_zero_one_str comparing the tokens in the case they were written in
ZeroOneOfStrippedExactCase(s, low) ==
  IF s \in {<<"0">>, <<"1">>} THEN VStr(s)
  ELSE IF s \in TruthyTokens THEN VStr(<<"1">>)
  ELSE IF s \in FalsyTokens THEN VStr(<<"0">>)
  ELSE VStr(s)

\* lines 113-121, s the stripped string and low its lower case
ZeroOneOfStripped(s, low) ==
  IF s \in {<<"0">>, <<"1">>} THEN VStr(s)
  ELSE IF low \in TruthyTokens THEN VStr(<<"1">>)
  ELSE IF low \in FalsyTokens THEN VStr(<<"0">>)
  ELSE VStr(s)

\* lines 125-128, r the outcome of int(round(float(v)))
ZeroOneOfRounded(r) ==
  IF r.raised THEN Ok(EmptyStr)
  ELSE Ok(VStr(IF r.v.n # 0 THEN <<"1">> ELSE <<"0">>))

ZeroOneOfRoundedIsOne(r) ==
  IF r.raised THEN Ok(EmptyStr)
  ELSE Ok(VStr(IF r.v.n = 1 THEN <<"1">> ELSE <<"0">>))

\* _to_zero_one_str with the numeric test written `== 1` for `!= 0`
_to_zero_one_str_IsOne(v) ==
  IF IsNaRaises(v) THEN Raise
  ELSE IF IsNaScalar(v) THEN Ok(EmptyStr)
  ELSE IF IsStr(v) THEN Ok(ZeroOneOfStripped(PyStrip(v.s), PyLower(PyStrip(v.s))))
  ELSE IF v.k = "bool" THEN Ok(VStr(IF v.n = 1 THEN <<"1">> ELSE <<"0">>))
  ELSE IF IsAnyInt(v) \/ IsAnyFloat(v) THEN ZeroOneOfRoundedIsOne(PyIntRound(PyFloat(v).v))
  ELSE Ok(PyStr(v))

_to_zero_one_str(v) ==
  IF IsNaRaises(v) THEN Raise
  ELSE IF IsNaScalar(v) THEN Ok(EmptyStr)
  ELSE IF IsStr(v) THEN Ok(ZeroOneOfStripped(PyStrip(v.s), PyLower(PyStrip(v.s))))
  ELSE IF v.k = "bool" THEN Ok(VStr(IF v.n = 1 THEN <<"1">> ELSE <<"0">>))
  ELSE IF IsAnyInt(v) \/ IsAnyFloat(v) THEN ZeroOneOfRounded(PyIntRound(PyFloat(v).v))
  ELSE Ok(PyStr(v))

\* lines 137-138, s = str(v).strip() and low its lower case
IntFallback(s, low) ==
  IF low \in {<<"n", "a", "n">>, <<"n", "o", "n", "e">>} THEN EmptyStr ELSE VStr(s)

\* line 135 with the rounding left out: str(float(v))
IntOfRoundedAsFloat(r) ==
  IF r.raised THEN Raise ELSE Ok(VStr(IntToStr(r.v.n) \o <<".", "0">>))

\* line 135, r the outcome of int(round(f)); raised stands for the except branch
IntOfRounded(r) == IF r.raised THEN Raise ELSE Ok(VStr(IntToStr(r.v.n)))

\* line 135, f the outcome of float(v)
IntOfFloat(f) == IF f.raised THEN Raise ELSE IntOfRounded(PyIntRound(f.v))

\* lines 134-138, tried the outcome of the try block
IntOfTried(v, tried) ==
  IF ~tried.raised THEN tried
  ELSE Ok(IntFallback(PyStrip(PyStrChars(v)), PyLower(PyStrip(PyStrChars(v)))))

_to_int_str(v) ==
  IF IsNaRaises(v) THEN Raise
  ELSE IF IsNaScalar(v) THEN Ok(EmptyStr)
  ELSE IntOfTried(v, IntOfFloat(PyFloat(v)))

\* line 146
NonEmptyOrZero(s) == VStr(IF s # <<>> THEN s ELSE <<"0">>)

\* s.rstrip("0."): trailing zeros and points stripped in one pass
RECURSIVE RStripZeroDot(_)
RStripZeroDot(s) ==
  IF s # <<>> /\ s[Len(s)] \in {"0", "."} THEN RStripZeroDot(SubSeq(s, 1, Len(s) - 1)) ELSE s

\* _to_float_str with line 145 written .rstrip("0.")
FloatOfTriedStripsBoth(v, f) ==
  IF f.raised THEN Ok(PyStr(v))
  ELSE Ok(NonEmptyOrZero(RStripZeroDot(Fixed12(f.v))))

\* lines 143-148, f the outcome of float(v)
FloatOfTried(v, f) ==
  IF f.raised THEN Ok(PyStr(v))
  ELSE Ok(NonEmptyOrZero(PyRStripChar(PyRStripChar(Fixed12(f.v), "0"), ".")))

_to_float_str(v) ==
  IF IsNaRaises(v) THEN Raise
  ELSE IF IsNaScalar(v) THEN Ok(EmptyStr)
  ELSE FloatOfTried(v, PyFloat(v))

_identity_str(v) ==
  IF IsNaRaises(v) THEN Raise
  ELSE IF IsNaScalar(v) THEN Ok(EmptyStr)
  ELSE Ok(PyStr(v))

\* ------------------------------------------------------------------------
\* Tables (pandas DataFrame): cols is the ordered list of column names,
\* data[c][r] the cell of column number c in row number r.  Table objects
\* live on a heap (a sequence); a reference is an index into it.
\* ------------------------------------------------------------------------

NumRows(t) == Len(t.data[1])

ColIndex(t, name) == CHOOSE c \in 1..Len(t.cols) : t.cols[c] = name

HasCol(t, name) == \E c \in 1..Len(t.cols) : t.cols[c] = name

\* a table on which the geometry enrichment runs
Enrichable(t) == HasCol(t, "geometry") /\ HasCol(t, "stop_lat") /\ HasCol(t, "stop_lon")

time_cols == {"arrival_time", "departure_time", "start_time", "end_time"}

date_cols == {"date", "start_date", "end_date"}

zero_one_cols == {"monday", "tuesday", "wednesday", "thursday", "friday", "saturday",
                  "sunday", "pickup_type", "drop_off_type", "wheelchair_accessible",
                  "bikes_allowed"}

int_cols == {"stop_sequence", "direction_id", "route_type", "exception_type",
             "location_type", "transfer_type"}

float_cols == {"stop_lat", "stop_lon", "shape_dist_traveled", "shape_pt_lat",
               "shape_pt_lon"}

\* the if/elif chain matching the column name without regard to case
ConvertCellAnyCase(c, v, day) ==
  IF c \in time_cols \cup {"Arrival_Time"} THEN _to_gtfs_time(v)
  ELSE IF c \in date_cols THEN _to_gtfs_date(v, day)
  ELSE IF c \in zero_one_cols THEN _to_zero_one_str(v)
  ELSE IF c \in int_cols THEN _to_int_str(v)
  ELSE IF c \in float_cols \cup {"Stop_Lat"} THEN _to_float_str(v)
  ELSE _identity_str(v)

\* lines 191-203: the if/elif chain over the column name, day the day the
\* clock gives while the cell is converted (read by the date rule alone)
ConvertCell(c, v, day) ==
  IF c \in time_cols THEN _to_gtfs_time(v)
  ELSE IF c \in date_cols THEN _to_gtfs_date(v, day)
  ELSE IF c \in zero_one_cols THEN _to_zero_one_str(v)
  ELSE IF c \in int_cols THEN _to_int_str(v)
  ELSE IF c \in float_cols THEN _to_float_str(v)
  ELSE _identity_str(v)

\* out = df.dropna().copy(): the copy loses the rows that hold a null cell
DfCopyDropNa(h, r) ==
  LET t == h[r]
      keep == {i \in 1..NumRows(t) : \A c \in 1..Len(t.cols) : ~IsNaScalar(t.data[c][i])}
      rows == [c \in 1..Len(t.cols) |->
                 LET RECURSIVE Pick(_)
                     Pick(i) == IF i > NumRows(t) THEN <<>>
                                ELSE (IF i \in keep THEN <<t.data[c][i]>> ELSE <<>>) \o Pick(i + 1)
                 IN  Pick(1)]
  IN  [heap |-> Append(h, [t EXCEPT !.data = rows]), ref |-> Len(h) + 1]

\* out = df: no copy
DfCopyAlias(h, r) == [heap |-> h, ref |-> r]

\* `out` kept as one module-level table object, made by the first call and
\* overwritten by every later one (the first object after the two tables of
\* two concurrent callers)
DfCopyShared(h, r) ==
  IF Len(h) >= 3
  THEN [heap |-> [h EXCEPT ![3] = h[r]], ref |-> 3]
  ELSE [heap |-> Append(h, h[r]), ref |-> Len(h) + 1]

\* out = df.copy(): a new table object with the same cells
DfCopy(h, r) == [heap |-> Append(h, h[r]), ref |-> Len(h) + 1]

\* _gx reading the horizontal coordinate: latitude and longitude swapped
_gx_Horizontal(g) ==
  IF HasAttr(g, "x") THEN GetAttr(g, "x")
  ELSE IF HasAttr(g, "lon") THEN GetAttr(g, "lon")
  ELSE VNaN

\* lines 167-171: the value that fills stop_lat
_gx(g) ==
  IF HasAttr(g, "y") THEN GetAttr(g, "y")
  ELSE IF HasAttr(g, "lat") THEN GetAttr(g, "lat")
  ELSE VNaN

\* lines 172-176: the value that fills stop_lon
_gy(g) ==
  IF HasAttr(g, "x") THEN GetAttr(g, "x")
  ELSE IF HasAttr(g, "lon") THEN GetAttr(g, "lon")
  ELSE VNaN

\* Series.fillna(other) on one row: a missing cell takes the other's value,
\* the NaN of a row that _gx or _gy found no coordinate for included
FillNa(cell, other) ==
  IF IsNaScalar(cell) THEN other ELSE cell

\* lines 164-179, on the table object o of heap h
EnrichGeometry(h, o) ==
  LET t == h[o]
      g == t.data[ColIndex(t, "geometry")]
      la == ColIndex(t, "stop_lat")
      lo == ColIndex(t, "stop_lon")
      lat == [r \in 1..NumRows(t) |-> FillNa(t.data[la][r], _gx(g[r]))]
      lon == [r \in 1..NumRows(t) |-> FillNa(t.data[lo][r], _gy(g[r]))]
  IN  IF HasCol(t, "geometry") /\ HasCol(t, "stop_lat") /\ HasCol(t, "stop_lon")
      THEN [h EXCEPT ![o].data = [c \in 1..Len(t.cols) |->
                                    IF c = la THEN lat ELSE IF c = lo THEN lon ELSE t.data[c]]]
      ELSE h

\* the outcome of map, given the outcome of the rule on each cell
Mapped(col, results) ==
  IF \E r \in 1..Len(col) : results[r].raised
  THEN [raised |-> TRUE, col |-> col]
  ELSE [raised |-> FALSE, col |-> [r \in 1..Len(col) |-> results[r].v]]

\* out[c].map(f): [raised, col]; an exception in f escapes from map.  The
\* rows are converted one after the other, row r while the clock gives the
\* day days[r]
MapColumn(name, col, days) ==
  Mapped(col, [r \in 1..Len(col) |-> ConvertCell(name, col[r], days[r])])

\* the cells of the date columns of a table: the cells converted by the rule
\* that reads the clock
ClockReads(t) ==
  NumRows(t) * Cardinality({c \in 1..Len(t.cols) : t.cols[c] \in date_cols})

\* days holds the day the clock gives at each cell of the date columns of a
\* table, in the order the loop of lines 191-203 converts them, column after
\* column and row after row: the days of the rows of column c
ColumnDays(t, c, days) ==
  IF t.cols[c] \in date_cols
  THEN [r \in 1..NumRows(t) |->
          days[NumRows(t) * Cardinality({b \in 1..(c - 1) : t.cols[b] \in date_cols}) + r]]
  ELSE <<>>

\* lines 191-203 from column number c on: the columns are assigned one by
\* one, so the columns before a raising one stay converted
RECURSIVE ApplyConversions(_, _, _, _)

\* out[c] = m, then the columns after c; m the outcome of out[c].map(f)
AssignColumn(h, o, c, m, days) ==
  IF m.raised THEN [raised |-> TRUE, heap |-> h]
  ELSE ApplyConversions([h EXCEPT ![o].data[c] = m.col], o, c + 1, days)

ApplyConversions(h, o, c, days) ==
  IF c > Len(h[o].cols) THEN [raised |-> FALSE, heap |-> h]
  ELSE AssignColumn(h, o, c,
                    MapColumn(h[o].cols[c], h[o].data[c], ColumnDays(h[o], c, days)), days)

\* out.astype(str): a new table object, every cell through str()
AsTypeStr(t) ==
  [t EXCEPT !.data = [c \in 1..Len(t.cols) |->
                        [r \in 1..NumRows(t) |-> PyStr(t.data[c][r])]]]

\* `return df`: the argument handed back in place of out.astype(str)
ReturnsArgument(h, df, out) == [heap |-> h, ref |-> df]

\* line 206: the table handed back, given the heap, the argument df and out
ReturnValue(h, df, out) == [heap |-> Append(h, AsTypeStr(h[out])), ref |-> Len(h) + 1]

\* format_df_for_gtfs(df), df the table object r of heap h:
\* [raised, heap, ref], ref the returned table object (0 when raised)
\* a normal return of the table object ret.ref
Return(ret) == [raised |-> FALSE, heap |-> ret.heap, ref |-> ret.ref]

\* line 206 or the escaping exception, conv the outcome of lines 191-203
FormatConverted(conv, df, out) ==
  IF conv.raised
  THEN [raised |-> TRUE, heap |-> conv.heap, ref |-> 0]
  ELSE Return(ReturnValue(conv.heap, df, out))

\* lines 163-206, out the copy made at line 161
FormatCopy(out, df, days) ==
  FormatConverted(ApplyConversions(EnrichGeometry(out.heap, out.ref), out.ref, 1, days),
                  df, out.ref)

\* format_df_for_gtfs(df) while the clock gives the days days, one for each
\* cell of a date column
format_df_for_gtfs(h, r, days) == FormatCopy(DfCopy(h, r), r, days)

\* ------------------------------------------------------------------------
\* Inputs
\* ------------------------------------------------------------------------

MaxRows == 2

MaxCalls == 2

\* every representation of an absent cell
NullValues == {VNone, VNaN, VNp64NaN, VNp32NaN, VNaT, VNA}

\* non-string cells
TypedValues ==
  {VInt(0), VInt(1), VInt(2), VInt(3725), VInt(90000), VInt(-1),
   VBool(TRUE), VBool(FALSE),
   VFloat(FALSE, 0, <<>>), VFloat(FALSE, 0, <<"4">>), VFloat(FALSE, 0, <<"5">>),
   VFloat(FALSE, 1, <<"5">>), VFloat(FALSE, 2, <<>>), VFloat(FALSE, 2, <<"5">>),
   VFloat(TRUE, 0, <<"4">>), VFloat(FALSE, 49, <<"3">>), VFloat(FALSE, 3725, <<"6">>),
   VFloat(FALSE, 1, <<"5", "0", "0", "0", "0", "0", "0", "0", "0", "0", "0", "0", "1">>),
   VFloat(FALSE, 10, <<>>), VFloat(FALSE, 100, <<>>),
   VFloat(FALSE, 16384, <<"3">>),
   VFloat(FALSE, 1, <<"0", "0", "0", "0", "0", "0", "0", "0", "0", "0", "0", "0", "5">>),
   VFloat(FALSE, 0, <<"9", "9", "9", "9", "9", "9", "9", "9", "9", "9", "9", "9", "5">>),
   VFloat(FALSE, 0, <<"0", "0", "0", "0", "1">>),
   VFloat(FALSE, 0, <<"0", "0", "0", "0", "1", "2">>),
   VInf(FALSE), VInf(TRUE),
   VList(1), VList(2), VObject, VPoint(1), VPoint(3),
   VTimedelta(90000), VPyTimedelta(90000), VTimestamp(20240307, 18180), VDatetime(20240307, 18180),
   VDate(20240307), VTime(18180)}

\* strings given to every rule
CommonStrings ==
  {VStr(<<>>),
   VStr(<<" ">>),
   VStr(<<"a", "b", "c">>),
   VStr(<<" ", "a", "b", "c", " ">>),
   VStr(<<"y", "e", "s">>),
   VStr(<<"N", "o">>),
   VStr(<<"n", "a", "n">>),
   VStr(<<"N", "o", "n", "e">>)}

\* strings given to the time rule
TimeStrings ==
  {VStr(<<"5", ":", "3", ":", "0">>),
   VStr(<<"0", "5", ":", "0", "3", ":", "0", "0">>),
   VStr(<<"5", ":", "9", "9", ":", "9", "9">>),
   VStr(<<"1", ":", "2", ":", "3", ".", "9">>),
   VStr(<<"2", "5", ":", "0", "0", ":", "0", "0">>),
   VStr(<<"-", "1", ":", "2", ":", "3">>),
   VStr(<<"a", ":", "b", ":", "c">>),
   VStr(<<" ", "5", ":", "3", ":", "0", " ">>),
   VStr(<<"1", " ", "d", "a", "y", "s">>),
   VStr(<<"9", "0", "s">>),
   VStr(<<"2", "5", "h">>),
   VStr(<<"\t", "5", ":", "3", ":", "0", "\n">>),
   VStr(<<"5", ":", "\t", "3", ":", "0">>),
   VStr(<<"5", ":", "3", ":", "0", ".", "9", "9", "9", "9", "9", "9", "9", "9", "9", "9", "9", "9", "9", "9", "9", "9", "9">>),
   VStr(<<"۵", ":", "۳", ":", "۰">>),
   VStr(<<"5", ":", "3", ":", "۴", ".", "۵">>)}

\* strings given to the date rule
DateStrings ==
  {VStr(<<"2", "0", "2", "4", "-", "0", "3", "-", "0", "7">>),
   VStr(<<"2", "0", "2", "4", "0", "3", "0", "7">>),
   VStr(<<" ", "2", "0", "2", "4", "0", "3", "0", "7", " ">>),
   VStr(<<"1", "9", "9", "9", "-", "1", "2", "-", "3", "1">>),
   VStr(<<"2", "0", "2", "4", "0", "3", "0", "7", "\r">>),
   VStr(<<"۲", "۰", "۲", "۴", "۰", "۳", "۰", "۷">>),
   VStr(<<"²", "²", "²", "²", "²", "²", "²", "²">>),
   VStr(<<"2", "0", "2", "4", "/", "0", "3", "/", "0", "7">>),
   VStr(<<"0", "5", ":", "0", "3", ":", "0", "0">>)}

\* strings given to the zero-or-one rule
ZeroOneStrings ==
  {VStr(<<"0">>),
   VStr(<<"1">>),
   VStr(<<"2">>),
   VStr(<<" ", "1", " ">>),
   VStr(<<"t", "r", "u", "e">>),
   VStr(<<"T", "R", "U", "E">>),
   VStr(<<"t">>),
   VStr(<<"Y">>),
   VStr(<<"f", "a", "l", "s", "e">>),
   VStr(<<"F">>),
   VStr(<<"n", "o">>),
   VStr(<<"n">>),
   VStr(<<"m", "a", "y", "b", "e">>),
   VStr(<<"y", "e", "s", "\r">>),
   VStr(<<"Ý", "E", "S">>)}

\* strings given to the integer rule
IntStrings ==
  {VStr(<<"0", "0", "7">>),
   VStr(<<"0", ".", "5">>),
   VStr(<<"1", ".", "5">>),
   VStr(<<"2", ".", "5">>),
   VStr(<<"-", "0", ".", "4">>),
   VStr(<<" ", "4", "2", " ">>),
   VStr(<<"i", "n", "f">>),
   VStr(<<"1", ".", "2", ".", "3">>),
   VStr(<<"7">>),
   VStr(<<"7", "\r">>),
   VStr(<<"\t", "x", "\n">>),
   VStr(<<"n", "a", "n", "\n">>),
   VStr(<<"1", "_", "0">>),
   VStr(<<"0", ".", "5", "0", "0", "0", "0", "0", "0", "0", "0", "0", "0", "0", "0", "0", "0", "0", "0", "0", "1">>),
   VStr(<<"1", "e", "3">>),
   VStr(<<"۱", "۲">>),
   VStr(<<"۱", ".", "۵">>),
   VStr(<<"²">>)}

\* strings given to the float rule
FloatStrings ==
  {VStr(<<"4", "9", ".", "3">>),
   VStr(<<"2", ".", "0">>),
   VStr(<<"1", ".", "5", "0", "0", "0", "0", "0", "0", "0", "0", "0", "0", "0", "1">>),
   VStr(<<"1", "0">>),
   VStr(<<"1", "0", "0">>),
   VStr(<<"0", "0", "7">>),
   VStr(<<"-", "0", ".", "0">>),
   VStr(<<"i", "n", "f">>),
   VStr(<<"4", ".", "5", "\n">>),
   VStr(<<"1", "e", "3">>),
   VStr(<<"1", "E", "-", "2">>),
   VStr(<<"1", "_", "0">>),
   VStr(<<"0", ".", "5", "0", "0", "0", "0", "0", "0", "0", "0", "0", "0", "0", "0", "0", "0", "0", "0", "0", "1">>),
   VStr(<<"۱", ".", "۵">>),
   VStr(<<"1", "e", "۳">>)}

\* the cells of a column named c
CellValues(c) ==
  NullValues \cup TypedValues \cup CommonStrings \cup
  (IF c \in time_cols THEN TimeStrings
   ELSE IF c \in date_cols THEN DateStrings
   ELSE IF c \in zero_one_cols THEN ZeroOneStrings
   ELSE IF c \in int_cols THEN IntStrings
   ELSE IF c \in float_cols THEN FloatStrings
   ELSE {})

\* column names outside the five sets
OtherNames == {"stop_id", "Stop_Lat", "Arrival_Time", "geometry"}

ColumnNames ==
  time_cols \cup date_cols \cup zero_one_cols \cup int_cols \cup float_cols \cup OtherNames

\* tables of one column and one row
CellTables ==
  UNION {{[cols |-> <<c>>, data |-> <<(<<v>>)>>] : v \in CellValues(c)} : c \in ColumnNames}

\* schemas of the tables of several columns: the names, and the cells of each
Schemas ==
  {[cols |-> <<"stop_id", "geometry", "stop_lat", "stop_lon">>,
    vals |-> <<{VStr(<<"S", "1">>)},
               {VPoint(4), VNone},
               {VNone, VFloat(FALSE, 48, <<"5">>)},
               {VNaN, VStr(<<"1", "2", ".", "0">>)}>>],
   [cols |-> <<"stop_lat", "stop_lon", "geometry">>,
    vals |-> <<{VNone},
               {VNaN, VFloat(FALSE, 12, <<>>)},
               {VPoint(1), VPoint(2), VPoint(3)}>>],
   [cols |-> <<"geometry", "stop_lat">>,
    vals |-> <<{VPoint(1), VNone}, {VNone, VFloat(FALSE, 48, <<"5">>)}>>],
   [cols |-> <<"stop_lon", "geometry">>,
    vals |-> <<{VNaN, VFloat(FALSE, 12, <<>>)}, {VPoint(1), VPoint(2)}>>],
   [cols |-> <<"arrival_time", "monday", "stop_sequence">>,
    vals |-> <<{VInt(3725), VStr(<<"5", ":", "3", ":", "0">>)},
               {VStr(<<"y", "e", "s">>), VBool(FALSE)},
               {VFloat(FALSE, 2, <<"5">>), VNone}>>],
   [cols |-> <<"stop_name", "arrival_time">>,
    vals |-> <<{VInt(7), VList(2)}, {VInt(60), VInf(FALSE)}>>],
   [cols |-> <<"date">>,
    vals |-> <<{VStr(<<"0", "5", ":", "0", "3", ":", "0", "0">>),
                VStr(<<"2", "0", "2", "4", "-", "0", "3", "-", "0", "7">>)}>>]}

\* the rows over the columns c.. of a schema: one cell per column
RECURSIVE RowsFrom(_, _)
RowsFrom(vals, c) ==
  IF c > Len(vals) THEN {<<>>}
  ELSE {<<v>> \o rest : v \in vals[c], rest \in RowsFrom(vals, c + 1)}

\* the sequences of n rows
RECURSIVE RowSeqs(_, _)
RowSeqs(rows, n) ==
  IF n = 0 THEN {<<>>}
  ELSE {<<row>> \o rest : row \in rows, rest \in RowSeqs(rows, n - 1)}

\* the tables of a schema with n rows
SchemaTables(s, n) ==
  {[cols |-> s.cols, data |-> [c \in 1..Len(s.cols) |-> [r \in 1..n |-> rows[r][c]]]] :
     rows \in RowSeqs(RowsFrom(s.vals, 1), n)}

RowTables == UNION {SchemaTables(s, n) : s \in Schemas, n \in 1..MaxRows}

InputTables == CellTables \cup RowTables

\* ------------------------------------------------------------------------
\* Apurwa/opt.py: the bus stops of SmartBusOptimizer
\* Passenger counts are Python floats: float() of the fields of raw_data,
\* added with +=, divided with / and compared with >.
\* ------------------------------------------------------------------------

\* the fraction digits s above the fraction digits t, neither ending in 0
FracGreater(s, t) ==
  \E i \in 1..Len(s) :
    /\ \A j \in 1..(i - 1) : j <= Len(t) /\ s[j] = t[j]
    /\ (i > Len(t) \/ DigitVal(s[i]) > DigitVal(t[i]))

\* the magnitude of x above the magnitude of y
MagGreater(x, y) == x.n > y.n \/ (x.n = y.n /\ FracGreater(x.s, y.s))

IsZeroMag(x) == x.n = 0 /\ x.s = <<>>

\* float(v) for an int v, a float as it is
AsFloat(v) ==
  IF IsAnyInt(v) THEN VFloat(v.n < 0, IF v.n < 0 THEN 0 - v.n ELSE v.n, <<>>) ELSE v

FiniteGreater(x, y) ==
  IF x.neg = y.neg THEN (IF x.neg THEN MagGreater(y, x) ELSE MagGreater(x, y))
  ELSE y.neg /\ ~(IsZeroMag(x) /\ IsZeroMag(y))

\* a > b for two numbers, each an int or a float: a nan is above nothing
\* and nothing is above it
PyGreater(a, b) ==
  IF MathIsNaN(a) \/ MathIsNaN(b) THEN FALSE
  ELSE IF a.k = "float_inf" THEN ~a.neg /\ ~(b.k = "float_inf" /\ ~b.neg)
  ELSE IF b.k = "float_inf" THEN b.neg
  ELSE FiniteGreater(AsFloat(a), AsFloat(b))

PadZeros(d, w) == d \o Zeros(w - Len(d))

MaxLenOf(s, t) == IF Len(s) >= Len(t) THEN Len(s) ELSE Len(t)

\* whether the digits after place i of x + y carry into place i
CarryInto(x, y, i) ==
  \E j \in (i + 1)..Len(x) :
    /\ x[j] + y[j] >= 10
    /\ \A k \in (i + 1)..(j - 1) : x[k] + y[k] = 9

\* whether the digits after place i of x - y borrow from place i
BorrowFrom(x, y, i) ==
  \E j \in (i + 1)..Len(x) :
    /\ x[j] < y[j]
    /\ \A k \in (i + 1)..(j - 1) : x[k] = y[k]

\* xn.xs + yn.ys, the fractions of one length
SumOfPadded(xn, xs, yn, ys) ==
  [n |-> xn + yn + (IF CarryInto(xs, ys, 0) THEN 1 ELSE 0),
   s |-> <<>> \o [i \in 1..Len(xs) |->
                    (xs[i] + ys[i] + (IF CarryInto(xs, ys, i) THEN 1 ELSE 0)) % 10]]

\* xn.xs - yn.ys, the fractions of one length and xn.xs the larger
DifferenceOfPadded(xn, xs, yn, ys) ==
  [n |-> xn - yn - (IF BorrowFrom(xs, ys, 0) THEN 1 ELSE 0),
   s |-> <<>> \o [i \in 1..Len(xs) |->
                    (10 + xs[i] - ys[i] - (IF BorrowFrom(xs, ys, i) THEN 1 ELSE 0)) % 10]]

SumOfExact(x, y) ==
  SumOfPadded(x.n, PadZeros(x.s, MaxLenOf(x.s, y.s)), y.n, PadZeros(y.s, MaxLenOf(x.s, y.s)))

DifferenceOfExact(x, y) ==
  DifferenceOfPadded(x.n, PadZeros(x.s, MaxLenOf(x.s, y.s)),
                     y.n, PadZeros(y.s, MaxLenOf(x.s, y.s)))

\* the float nearest to the decimal (-1)^neg * x
FloatOfExact(neg, x) == FloatOfText(neg, x.n, x.s)

\* a + b for two finite floats: the exact sum, rounded to the nearest float
FiniteAdd(a, b) ==
  IF a.neg = b.neg THEN FloatOfExact(a.neg, SumOfExact(Exact(a), Exact(b)))
  ELSE IF MagGreater(a, b) THEN FloatOfExact(a.neg, DifferenceOfExact(Exact(a), Exact(b)))
  ELSE IF MagGreater(b, a) THEN FloatOfExact(b.neg, DifferenceOfExact(Exact(b), Exact(a)))
  ELSE VFloat(FALSE, 0, <<>>)

\* a + b for two floats
PyFloatAdd(a, b) ==
  IF MathIsNaN(a) \/ MathIsNaN(b) THEN VNaN
  ELSE IF a.k = "float_inf" THEN (IF b.k = "float_inf" /\ a.neg # b.neg THEN VNaN ELSE a)
  ELSE IF b.k = "float_inf" THEN b
  ELSE FiniteAdd(a, b)

\* a significand of 53 bits in two limbs, the high one first
LimbBits == Significand - Significand \div 2

LimbBase == 2^LimbBits

Limbs(m) ==
  <<BitsNat(SubSeq(m, 1, Significand - LimbBits)),
    BitsNat(SubSeq(m, Significand - LimbBits + 1, Significand))>>

LimbsGE(x, y) == x[1] > y[1] \/ (x[1] = y[1] /\ x[2] >= y[2])

LimbsSub(x, y) ==
  IF x[2] >= y[2] THEN <<x[1] - y[1], x[2] - y[2]>>
  ELSE <<x[1] - y[1] - 1, x[2] + LimbBase - y[2]>>

LimbsDouble(x) == <<2 * x[1] + (2 * x[2]) \div LimbBase, (2 * x[2]) % LimbBase>>

\* one step of the long division by b: the next bit of the quotient and
\* the remainder left, r the remainder so far
DivBit(r, b) ==
  IF LimbsGE(LimbsDouble(r), b)
  THEN [bits |-> <<1>>, rest |-> LimbsSub(LimbsDouble(r), b)]
  ELSE [bits |-> <<0>>, rest |-> LimbsDouble(r)]

RECURSIVE DivBitsOn(_, _, _)

\* k steps of the long division
DivBits[r \in Nat \X Nat, b \in Nat \X Nat, k \in Nat] ==
  IF k = 0 THEN [bits |-> <<>>, rest |-> r]
  ELSE IF k = 1 THEN DivBit(r, b)
  ELSE DivBitsOn(DivBits[r, b, k \div 2], b, k - k \div 2)

DivBitsOn(a, b, k) == FracSplitJoin(a, DivBits[a.rest, b, k])

\* the quotient 1.q1 q2 ... * 2^e rounded to 53 bits
QuotientRounded(e, q) ==
  RoundedBits(e, <<1>> \o SubSeq(q.bits, 1, Significand - 1),
              q.bits[Significand], q.rest # <<0, 0>>)

QuotientOfLimbs(e, a, b) ==
  IF LimbsGE(a, b) THEN QuotientRounded(e, DivBits[LimbsSub(a, b), b, Significand])
  ELSE QuotientRounded(e - 1, DivBits[LimbsSub(LimbsDouble(a), b), b, Significand])

\* x / y for two binary64 that are not zero
BitsDiv(x, y) == QuotientOfLimbs(x.e - y.e, Limbs(x.m), Limbs(y.m))

\* a / b for two floats, b not zero
PyFloatDiv(a, b) ==
  IF MathIsNaN(a) \/ MathIsNaN(b) THEN VNaN
  ELSE IF a.k = "float_inf" THEN (IF b.k = "float_inf" THEN VNaN ELSE VInf(a.neg # b.neg))
  ELSE IF b.k = "float_inf" \/ IsZeroMag(a) THEN VFloat(a.neg # b.neg, 0, <<>>)
  ELSE FloatOfBits(a.neg # b.neg, BitsDiv(BitsOf(a), BitsOf(b)))

\* a / b for two numbers, each an int or a float
PyTrueDiv(a, b) == PyFloatDiv(AsFloat(a), AsFloat(b))

\* -a for a float
Negated(a) == IF a.k \in {"float", "float_inf"} THEN [a EXCEPT !.neg = ~@] ELSE a

\* a + b for two numbers: an int for two ints, else the sum of the floats
PyAdd(a, b) ==
  IF IsAnyInt(a) /\ IsAnyInt(b) THEN VInt(a.n + b.n)
  ELSE PyFloatAdd(AsFloat(a), AsFloat(b))

\* a - b for two numbers
PySub(a, b) ==
  IF IsAnyInt(a) /\ IsAnyInt(b) THEN VInt(a.n - b.n)
  ELSE PyFloatAdd(AsFloat(a), Negated(AsFloat(b)))

\* a significand of 53 bits and two zero bits in five limbs of 11 bits, the
\* lowest limb first
WideLimbBits == 11

WideLimbBase == 2^WideLimbBits

WideLimbCount == 5

WideLimbs(m) ==
  <<>> \o [i \in 1..WideLimbCount |->
             BitsNat(SubSeq(m \o <<0, 0>>, WideLimbBits * (WideLimbCount - i) + 1,
                            WideLimbBits * (WideLimbCount - i + 1)))]

\* x[i] * y[j], 0 off the limbs
LimbTerm(x, y, i, j) ==
  IF i \in 1..WideLimbCount /\ j \in 1..WideLimbCount THEN x[i] * y[j] ELSE 0

\* column k of the long multiplication, the lowest column 1
LimbColumn(x, y, k) ==
  LimbTerm(x, y, 1, k) + LimbTerm(x, y, 2, k - 1) + LimbTerm(x, y, 3, k - 2)
  + LimbTerm(x, y, 4, k - 3) + LimbTerm(x, y, 5, k - 4)

\* column k and what the columns below it carry into it
RECURSIVE ColumnSum(_, _, _)
ColumnSum(x, y, k) ==
  IF k = 0 THEN 0 ELSE LimbColumn(x, y, k) + (ColumnSum(x, y, k - 1) \div WideLimbBase)

\* the ten limbs of the product, the lowest first
ProductLimbs(x, y) ==
  <<>> \o [k \in 1..(2 * WideLimbCount) |-> ColumnSum(x, y, k) % WideLimbBase]

\* the 110 bits of the product, the highest first
BitsOfLimbs(p) ==
  <<>> \o [i \in 1..(WideLimbBits * Len(p)) |->
             (p[Len(p) - (i - 1) \div WideLimbBits]
                \div 2^(WideLimbBits - 1 - ((i - 1) % WideLimbBits))) % 2]

\* the product p of two significands, worth p[1].p[2]... * 2^(e + 1),
\* rounded to 53 bits
ProductRounded(e, p) ==
  IF p[1] = 1
  THEN RoundedBits(e + 1, SubSeq(p, 1, Significand), p[Significand + 1],
                   \E i \in (Significand + 2)..Len(p) : p[i] = 1)
  ELSE RoundedBits(e, SubSeq(p, 2, Significand + 1), p[Significand + 2],
                   \E i \in (Significand + 3)..Len(p) : p[i] = 1)

\* x * y for two binary64 that are not zero
BitsMul(x, y) ==
  ProductRounded(x.e + y.e, BitsOfLimbs(ProductLimbs(WideLimbs(x.m), WideLimbs(y.m))))

\* a * b for two floats
PyFloatMul(a, b) ==
  IF MathIsNaN(a) \/ MathIsNaN(b) THEN VNaN
  ELSE IF a.k = "float_inf" \/ b.k = "float_inf"
  THEN (IF (a.k = "float" /\ IsZeroMag(a)) \/ (b.k = "float" /\ IsZeroMag(b)) THEN VNaN
        ELSE VInf(a.neg # b.neg))
  ELSE IF IsZeroMag(a) \/ IsZeroMag(b) THEN VFloat(a.neg # b.neg, 0, <<>>)
  ELSE FloatOfBits(a.neg # b.neg, BitsMul(BitsOf(a), BitsOf(b)))

\* a * b for two numbers
PyMul(a, b) ==
  IF IsAnyInt(a) /\ IsAnyInt(b) THEN VInt(a.n * b.n)
  ELSE PyFloatMul(AsFloat(a), AsFloat(b))

\* min(a, b): b when b < a, else a
PyMin(a, b) == IF PyGreater(a, b) THEN b ELSE a

\* max(a, b): b when b > a, else a
PyMax(a, b) == IF PyGreater(b, a) THEN b ELSE a

\* sum(values[1..n]): the values added one by one onto the int 0
RECURSIVE SumUpTo(_, _)
SumUpTo(values, n) ==
  IF n = 0 THEN VInt(0) ELSE PyAdd(SumUpTo(values, n - 1), values[n])

PySum(values) == SumUpTo(values, Len(values))

\* the lines of the text raw_data of parse_real_data,
\* raw_data.strip().split('\n')
raw_data == <<
  <<"5", "6", "1", "\t", "N", "e", "u", "m", "a", "r", "k", "t", " ", "B", "a", "h", "n", "h", "o", "f", "\t", "1", "1", "1", ".", "0", "\t", "7", "7", "5", ".", "6">>,
  <<"5", "6", "1", "\t", "O", "b", "e", "r", "e", "r", " ", "M", "a", "r", "k", "t", "\t", "6", "2", ".", "5", "\t", "1", "7", "8", ".", "0">>,
  <<"5", "6", "1", "\t", "R", "a", "t", "h", "a", "u", "s", "\t", "5", "6", ".", "3", "\t", "1", "5", "8", ".", "9">>,
  <<"5", "6", "1", "\t", "L", "a", "n", "d", "r", "a", "t", "s", "a", "m", "t", "\t", "6", "3", ".", "3", "\t", "1", "0", "4", ".", "4">>,
  <<"5", "6", "1", "\t", "A", "h", "n", "t", "w", "e", "g", "\t", "8", ".", "7", "\t", "8", ".", "7">>,
  <<"5", "6", "1", "\t", "B", "e", "r", "g", "s", "t", "r", ".", " ", "(", "P", "ö", "l", "l", "i", "n", "g", ")", "\t", "1", "6", ".", "3", "\t", "1", "6", ".", "3">>,
  <<"5", "6", "1", "\t", "F", "l", "i", "e", "d", "e", "r", "w", "e", "g", "\t", "1", "8", ".", "3", "\t", "1", "8", ".", "3">>,
  <<"5", "6", "1", "\t", "F", "l", "u", "g", "p", "l", "a", "t", "z", "\t", "8", ".", "8", "\t", "8", ".", "8">>,
  <<"5", "6", "1", "\t", "G", "a", "s", "t", "h", "o", "f", " ", "F", "e", "i", "h", "l", " ", "(", "P", "ö", "l", "l", "i", "n", "g", ")", "\t", "5", "0", ".", "6", "\t", "5", "0", ".", "6">>,
  <<"5", "6", "1", "\t", "J", "o", "h", "a", "n", "n", "e", "s", "z", "e", "n", "t", "r", "u", "m", "\t", "1", ".", "7", "\t", "1", "8", ".", "1">>,
  <<"5", "6", "1", "\t", "K", "a", "p", "e", "l", "l", "e", "n", "w", "e", "g", " ", "(", "R", "i", "t", "t", "e", "r", "s", "h", "o", "f", ")", "\t", "1", "3", ".", "0", "\t", "1", "3", ".", "0">>,
  <<"5", "6", "1", "\t", "K", "l", "i", "n", "i", "k", "u", "m", "\t", "3", "4", ".", "8", "\t", "6", "0", ".", "4">>,
  <<"5", "6", "1", "\t", "K", "r", "e", "u", "z", "s", "t", "r", ".", "\t", "0", ".", "1", "\t", "1", "1", ".", "0">>,
  <<"5", "6", "1", "\t", "M", "a", "r", "i", "e", "n", "b", "a", "d", "e", "r", " ", "S", "t", "r", ".", "\t", "4", ".", "7", "\t", "4", ".", "7">>,
  <<"5", "6", "1", "\t", "M", "e", "u", "s", "e", "l", "s", "t", "r", ".", "\t", "3", ".", "2", "\t", "1", "1", ".", "2">>,
  <<"5", "6", "1", "\t", "N", "i", "b", "e", "l", "u", "n", "g", "e", "n", "s", "t", "r", ".", "\t", "4", ".", "9", "\t", "4", ".", "9">>,
  <<"5", "6", "1", "\t", "N", "ü", "r", "n", "b", "e", "r", "g", "e", "r", " ", "S", "t", "r", ".", "\t", "3", "5", ".", "5", "\t", "3", "5", ".", "5">>,
  <<"5", "6", "1", "\t", "P", "ö", "l", "l", "i", "n", "g", "e", "r", " ", "H", "ö", "h", "e", "\t", "3", ".", "4", "\t", "3", ".", "4">>,
  <<"5", "6", "1", "\t", "S", "i", "e", "d", "l", "e", "r", "s", "t", "r", ".", " ", "(", "P", "ö", "l", "l", "i", "n", "g", ")", "\t", "1", "5", ".", "1", "\t", "1", "5", ".", "1">>,
  <<"5", "6", "1", "\t", "S", "i", "e", "g", "f", "r", "i", "e", "d", "s", "t", "r", ".", " ", "(", "P", "ö", "l", "l", "i", "n", "g", ")", "\t", "5", ".", "7", "\t", "5", ".", "7">>,
  <<"5", "6", "1", "\t", "S", "t", "a", "d", "t", "w", "e", "g", " ", "(", "P", "ö", "l", "l", "i", "n", "g", ")", "\t", "1", "0", ".", "7", "\t", "1", "0", ".", "7">>,
  <<"5", "6", "1", "\t", "V", "o", "l", "k", "s", "f", "e", "s", "t", "p", "l", "a", "t", "z", "\t", "4", ".", "5", "\t", "3", "0", ".", "4">>,
  <<"5", "6", "1", "\t", "W", "o", "f", "f", "e", "n", "b", "a", "c", "h", "e", "r", " ", "S", "t", "r", ".", "\t", "0", ".", "4", "\t", "5", ".", "9">>,
  <<"5", "6", "2", "\t", "N", "e", "u", "m", "a", "r", "k", "t", " ", "B", "a", "h", "n", "h", "o", "f", "\t", "0", ".", "0", "\t", "7", "1", ".", "9">>,
  <<"5", "6", "2", "\t", "O", "b", "e", "r", "e", "r", " ", "M", "a", "r", "k", "t", "\t", "0", ".", "0", "\t", "2", "8", ".", "7">>,
  <<"5", "6", "2", "\t", "R", "a", "t", "h", "a", "u", "s", "\t", "0", ".", "0", "\t", "1", "8", ".", "7">>,
  <<"5", "6", "2", "\t", "L", "a", "n", "d", "r", "a", "t", "s", "a", "m", "t", "\t", "0", ".", "0", "\t", "4", "1", ".", "1">>,
  <<"5", "6", "2", "\t", "A", "m", " ", "S", "a", "n", "d", "\t", "1", ".", "9", "\t", "1", ".", "9">>,
  <<"5", "6", "2", "\t", "H", "e", "i", "l", "i", "g", "e", "n", "w", "i", "e", "s", "e", "n", "\t", "7", ".", "5", "\t", "7", ".", "5">>,
  <<"5", "6", "2", "\t", "H", "o", "l", "z", "h", "e", "i", "m", " ", "S", "c", "h", "u", "l", "e", "\t", "1", "1", ".", "6", "\t", "1", "1", ".", "6">>,
  <<"5", "6", "2", "\t", "K", "l", "i", "n", "i", "k", "u", "m", "\t", "0", ".", "0", "\t", "2", "5", ".", "6">>,
  <<"5", "6", "2", "\t", "M", "a", "i", "e", "n", "b", "r", "e", "i", "t", "e", "\t", "1", "6", ".", "2", "\t", "1", "6", ".", "3">>,
  <<"5", "6", "2", "\t", "S", "t", ".", "-", "A", "n", "n", "a", "-", "S", "t", "r", ".", "\t", "6", ".", "7", "\t", "6", ".", "7">>,
  <<"5", "6", "2", "\t", "T", "r", "i", "f", "t", "s", "t", "r", ".", "\t", "1", ".", "2", "\t", "1", ".", "2">>,
  <<"5", "6", "3", "\t", "N", "e", "u", "m", "a", "r", "k", "t", " ", "B", "a", "h", "n", "h", "o", "f", "\t", "0", ".", "0", "\t", "9", "7", ".", "7">>,
  <<"5", "6", "3", "\t", "O", "b", "e", "r", "e", "r", " ", "M", "a", "r", "k", "t", "\t", "0", ".", "0", "\t", "5", "9", ".", "2">>,
  <<"5", "6", "3", "\t", "R", "a", "t", "h", "a", "u", "s", "\t", "0", ".", "0", "\t", "4", "5", ".", "8">>,
  <<"5", "6", "3", "\t", "A", "l", "t", "d", "o", "r", "f", "e", "r", " ", "S", "t", "r", ".", "\t", "2", ".", "0", "\t", "2", ".", "5">>,
  <<"5", "6", "3", "\t", "A", "l", "t", "e", "n", "h", "o", "f", " ", "G", "e", "s", "c", "h", "ä", "f", "t", "s", "z", "e", "n", "t", "r", "u", "m", "\t", "2", "1", ".", "9", "\t", "2", "3", ".", "2">>,
  <<"5", "6", "3", "\t", "A", "l", "t", "e", "n", "h", "o", "f", "w", "e", "g", "\t", "1", "1", ".", "7", "\t", "1", "1", ".", "7">>,
  <<"5", "6", "3", "\t", "A", "m", " ", "E", "v", "a", "n", "g", "e", "l", "i", "e", "n", "s", "t", "e", "i", "n", "\t", "7", ".", "1", "\t", "7", ".", "1">>,
  <<"5", "6", "3", "\t", "B", "r", "e", "s", "l", "a", "u", "e", "r", " ", "S", "t", "r", ".", "\t", "8", ".", "2", "\t", "8", ".", "2">>,
  <<"5", "6", "3", "\t", "E", "i", "c", "h", "e", "n", "d", "o", "r", "f", "f", "s", "t", "r", ".", "\t", "4", ".", "7", "\t", "4", ".", "7">>,
  <<"5", "6", "3", "\t", "H", "e", "r", "m", "a", "n", "n", "-", "S", "t", "e", "h", "r", "-", "S", "t", "r", ".", "\t", "1", "8", ".", "7", "\t", "1", "8", ".", "7">>,
  <<"5", "6", "3", "\t", "J", "o", "h", "a", "n", "n", "-", "M", "o", "i", "s", "-", "R", "i", "n", "g", "\t", "9", ".", "1", "\t", "9", ".", "8">>,
  <<"5", "6", "3", "\t", "J", "o", "h", "a", "n", "n", "e", "s", "z", "e", "n", "t", "r", "u", "m", "\t", "0", ".", "0", "\t", "1", ".", "8">>,
  <<"5", "6", "3", "\t", "K", "o", "r", "n", "s", "t", "r", ".", "\t", "1", "6", ".", "8", "\t", "1", "6", ".", "8">>,
  <<"5", "6", "3", "\t", "K", "o", "p", "p", "e", "n", "m", "ü", "h", "l", "w", "e", "g", "\t", "8", ".", "4", "\t", "8", ".", "4">>,
  <<"5", "6", "3", "\t", "L", "a", "n", "d", "e", "s", "g", "a", "r", "t", "e", "n", "s", "c", "h", "a", "u", "\t", "1", "7", ".", "2", "\t", "1", "9", ".", "0">>,
  <<"5", "6", "3", "\t", "M", "i", "l", "c", "h", "h", "o", "f", "s", "t", "r", ".", "\t", "0", ".", "0", "\t", "0", ".", "6">>,
  <<"5", "6", "3", "\t", "N", "e", "u", "e", "r", " ", "M", "a", "r", "k", "t", "\t", "3", "8", ".", "2", "\t", "4", "0", ".", "4">>,
  <<"5", "6", "4", "\t", "N", "e", "u", "m", "a", "r", "k", "t", " ", "B", "a", "h", "n", "h", "o", "f", "\t", "0", ".", "0", "\t", "5", "9", ".", "7">>,
  <<"5", "6", "4", "\t", "A", "b", "z", "w", ".", " ", "R", "e", "g", "e", "r", "s", "t", "r", ".", "\t", "3", ".", "0", "\t", "3", ".", "0">>,
  <<"5", "6", "4", "\t", "A", "m", "b", "e", "r", "g", "e", "r", " ", "S", "t", "r", ".", "\t", "0", ".", "1", "\t", "0", ".", "1">>,
  <<"5", "6", "4", "\t", "E", "F", "A", "-", "S", "t", "r", ".", "\t", "3", ".", "6", "\t", "3", ".", "6">>,
  <<"5", "6", "4", "\t", "F", "a", "b", "e", "r", "p", "a", "r", "k", "\t", "0", ".", "2", "\t", "0", ".", "2">>,
  <<"5", "6", "4", "\t", "H", "e", "i", "d", "e", "w", "e", "g", "\t", "1", "0", ".", "6", "\t", "1", "0", ".", "6">>,
  <<"5", "6", "4", "\t", "K", "a", "p", "u", "z", "i", "n", "e", "r", "h", "ö", "l", "z", "l", "\t", "5", ".", "8", "\t", "5", ".", "8">>,
  <<"5", "6", "4", "\t", "K", "a", "r", "l", "-", "S", "p", "e", "i", "e", "r", "-", "S", "t", "r", ".", "\t", "1", "1", ".", "9", "\t", "2", "6", ".", "1">>,
  <<"5", "6", "4", "\t", "K", "l", "o", "s", "t", "e", "r", "t", "o", "r", "\t", "6", ".", "1", "\t", "1", "1", ".", "1">>,
  <<"5", "6", "4", "\t", "K", "o", "h", "l", "e", "n", "b", "r", "u", "n", "n", "e", "r", "m", "ü", "h", "l", "s", "t", "r", ".", "\t", "8", ".", "1", "\t", "8", ".", "1">>,
  <<"5", "6", "4", "\t", "L", "e", "i", "p", "z", "i", "g", "e", "r", "s", "t", "r", ".", "\t", "6", ".", "3", "\t", "6", ".", "3">>,
  <<"5", "6", "4", "\t", "M", "u", "s", "e", "u", "m", " ", "L", "o", "t", "h", "a", "r", " ", "F", "i", "s", "c", "h", "e", "r", "\t", "2", "9", ".", "4", "\t", "4", "7", ".", "9">>,
  <<"5", "6", "4", "\t", "P", "e", "l", "c", "h", "e", "n", "h", "o", "f", "e", "n", "e", "r", " ", "S", "t", "r", ".", "\t", "5", ".", "8", "\t", "5", ".", "8">>,
  <<"5", "6", "4", "\t", "P", "u", "l", "v", "e", "r", "ä", "c", "k", "e", "r", "\t", "0", ".", "4", "\t", "0", ".", "4">>,
  <<"5", "6", "4", "\t", "R", "e", "g", "e", "r", "s", "t", "r", ".", "\t", "3", ".", "5", "\t", "3", ".", "5">>,
  <<"5", "6", "4", "\t", "S", "a", "c", "h", "s", "e", "n", "s", "t", "r", ".", "\t", "4", ".", "9", "\t", "4", ".", "9">>,
  <<"5", "6", "4", "\t", "S", "c", "h", "a", "f", "h", "o", "f", "\t", "1", ".", "2", "\t", "1", ".", "2">>,
  <<"5", "6", "4", "\t", "S", "c", "h", "i", "l", "l", "e", "r", "s", "t", "r", ".", "\t", "5", ".", "0", "\t", "5", ".", "0">>,
  <<"5", "6", "4", "\t", "S", "c", "h", "l", "o", "s", "s", "b", "a", "d", "\t", "2", "5", ".", "2", "\t", "4", "1", ".", "0">>,
  <<"5", "6", "4", "\t", "T", "h", "e", "o", "-", "B", "e", "t", "z", "-", "P", "l", "a", "t", "z", "\t", "2", "3", ".", "4", "\t", "1", "4", "3", ".", "0">>,
  <<"5", "6", "4", "\t", "W", "i", "l", "h", "e", "l", "m", "-", "B", "u", "s", "c", "h", "-", "S", "t", "r", ".", "\t", "5", ".", "2", "\t", "5", ".", "2">>,
  <<"5", "6", "5", "\t", "N", "e", "u", "m", "a", "r", "k", "t", " ", "B", "a", "h", "n", "h", "o", "f", "\t", "0", ".", "0", "\t", "8", "1", ".", "2">>,
  <<"5", "6", "5", "\t", "A", "m", " ", "L", "o", "h", "g", "r", "a", "b", "e", "n", "\t", "1", "1", ".", "9", "\t", "1", "1", ".", "9">>,
  <<"5", "6", "5", "\t", "B", "i", "r", "k", "e", "n", "w", "e", "g", "\t", "7", ".", "7", "\t", "7", ".", "7">>,
  <<"5", "6", "5", "\t", "E", "g", "e", "r", "l", "ä", "n", "d", "e", "r", " ", "S", "t", "r", ".", "\t", "5", ".", "5", "\t", "5", ".", "5">>,
  <<"5", "6", "5", "\t", "F", "ö", "h", "r", "e", "n", "w", "e", "g", "\t", "1", "1", ".", "2", "\t", "1", "1", ".", "2">>,
  <<"5", "6", "5", "\t", "G", "i", "n", "s", "t", "e", "r", "w", "e", "g", "\t", "1", "0", ".", "9", "\t", "1", "0", ".", "9">>,
  <<"5", "6", "5", "\t", "H", "u", "t", "ä", "c", "k", "e", "r", "\t", "9", ".", "6", "\t", "9", ".", "6">>,
  <<"5", "6", "5", "\t", "J", "o", "h", "a", "n", "n", "e", "s", "z", "e", "n", "t", "r", "u", "m", "\t", "0", ".", "0", "\t", "1", ".", "4">>,
  <<"5", "6", "5", "\t", "K", "a", "r", "l", "-", "S", "p", "e", "i", "e", "r", "-", "S", "t", "r", ".", "\t", "0", ".", "0", "\t", "1", "4", ".", "2">>,
  <<"5", "6", "5", "\t", "K", "e", "t", "t", "e", "l", "e", "r", "s", "t", "r", ".", "\t", "2", "2", ".", "4", "\t", "2", "2", ".", "4">>,
  <<"5", "6", "5", "\t", "K", "l", "o", "s", "t", "e", "r", "t", "o", "r", "\t", "0", ".", "0", "\t", "5", ".", "0">>,
  <<"5", "6", "5", "\t", "M", "u", "s", "e", "u", "m", " ", "L", "o", "t", "h", "a", "r", " ", "F", "i", "s", "c", "h", "e", "r", "\t", "0", ".", "0", "\t", "1", "8", ".", "4">>,
  <<"5", "6", "5", "\t", "S", "a", "a", "r", "l", "a", "n", "d", "s", "t", "r", ".", "\t", "1", "4", ".", "4", "\t", "1", "4", ".", "4">>,
  <<"5", "6", "5", "\t", "S", "c", "h", "l", "o", "s", "s", "b", "a", "d", "\t", "0", ".", "0", "\t", "1", "5", ".", "8">>,
  <<"5", "6", "5", "\t", "T", "h", "e", "o", "-", "B", "e", "t", "z", "-", "P", "l", "a", "t", "z", "\t", "0", ".", "0", "\t", "6", "2", ".", "0">>,
  <<"5", "6", "5", "\t", "T", "u", "r", "n", "e", "r", "h", "e", "i", "m", "\t", "2", ".", "2", "\t", "2", ".", "2">>,
  <<"5", "6", "5", "\t", "V", "o", "l", "k", "s", "f", "e", "s", "t", "p", "l", "a", "t", "z", "\t", "0", ".", "0", "\t", "1", "5", ".", "2">>,
  <<"5", "6", "5", "\t", "W", "e", "i", "ß", "e", "n", "f", "e", "l", "d", "p", "l", "a", "t", "z", "\t", "1", ".", "6", "\t", "1", ".", "6">>,
  <<"5", "6", "5", "\t", "W", "o", "l", "f", "s", "t", "e", "i", "n", " ", "H", "l", ".", " ", "K", "r", "e", "u", "z", "\t", "6", ".", "3", "\t", "6", ".", "3">>,
  <<"5", "6", "5", "\t", "W", "o", "l", "f", "s", "t", "e", "i", "n", " ", "S", "i", "e", "d", "l", "u", "n", "g", "\t", "1", "3", ".", "1", "\t", "1", "3", ".", "1">>,
  <<"5", "6", "5", "\t", "Z", "e", "d", "e", "r", "n", "w", "e", "g", "\t", "9", ".", "4", "\t", "9", ".", "4">>,
  <<"5", "6", "6", "\t", "N", "e", "u", "m", "a", "r", "k", "t", " ", "B", "a", "h", "n", "h", "o", "f", "\t", "0", ".", "0", "\t", "7", "1", ".", "5">>,
  <<"5", "6", "6", "\t", "B", "a", "d", "s", "t", "r", ".", "\t", "1", ".", "5", "\t", "1", ".", "5">>,
  <<"5", "6", "6", "\t", "G", "o", "t", "e", "n", "s", "t", "r", ".", "\t", "4", "3", ".", "9", "\t", "4", "3", ".", "9">>,
  <<"5", "6", "6", "\t", "H", "ö", "h", "e", "n", "b", "e", "r", "g", " ", "i", "m", " ", "T", "a", "l", "\t", "1", "4", ".", "5", "\t", "1", "4", ".", "5">>,
  <<"5", "6", "6", "\t", "M", "a", "r", "i", "a", "h", "i", "l", "f", "s", "t", "r", ".", "\t", "3", "2", ".", "8", "\t", "3", "2", ".", "8">>,
  <<"5", "6", "6", "\t", "S", "t", ".", " ", "H", "e", "l", "e", "n", "a", "\t", "2", ".", "9", "\t", "2", ".", "9">>,
  <<"5", "6", "6", "\t", "S", "t", "u", "r", "m", "w", "i", "e", "s", "e", "\t", "4", ".", "4", "\t", "4", ".", "4">>,
  <<"5", "6", "6", "\t", "T", "h", "e", "o", "-", "B", "e", "t", "z", "-", "P", "l", "a", "t", "z", "\t", "0", ".", "0", "\t", "5", "7", ".", "4">>,
  <<"5", "6", "6", "\t", "V", "o", "g", "g", "e", "n", "t", "h", "a", "l", " ", "O", "r", "t", "\t", "2", ".", "1", "\t", "2", ".", "1">>,
  <<"5", "6", "6", "\t", "Z", "i", "e", "g", "e", "l", "h", "ü", "t", "t", "e", "n", "w", "e", "g", "\t", "5", ".", "4", "\t", "5", ".", "4">>,
  <<"5", "6", "7", "\t", "N", "e", "u", "m", "a", "r", "k", "t", " ", "B", "a", "h", "n", "h", "o", "f", "\t", "0", ".", "0", "\t", "5", "7", ".", "0">>,
  <<"5", "6", "7", "\t", "Ä", "r", "z", "t", "e", "h", "a", "u", "s", "\t", "1", "2", ".", "9", "\t", "2", "4", ".", "0">>,
  <<"5", "6", "7", "\t", "D", "i", "e", "n", "t", "z", "e", "n", "h", "o", "f", "e", "r", "s", "t", "r", ".", "\t", "1", ".", "3", "\t", "1", ".", "3">>,
  <<"5", "6", "7", "\t", "F", "a", ".", " ", "K", "l", "e", "b", "l", "\t", "5", ".", "5", "\t", "5", ".", "5">>,
  <<"5", "6", "7", "\t", "F", "i", "n", "a", "n", "z", "a", "m", "t", "\t", "2", "4", ".", "7", "\t", "2", "6", ".", "3">>,
  <<"5", "6", "7", "\t", "F", "r", "i", "e", "d", "h", "o", "f", "\t", "3", ".", "2", "\t", "3", ".", "2">>,
  <<"5", "6", "7", "\t", "K", "e", "r", "s", "c", "h", "e", "n", "s", "t", "e", "i", "n", "e", "r", "s", "t", "r", ".", "\t", "2", "5", ".", "9", "\t", "4", "8", ".", "6">>,
  <<"5", "6", "7", "\t", "L", "ä", "h", "r", "\t", "1", "1", ".", "0", "\t", "1", "1", ".", "0">>,
  <<"5", "6", "7", "\t", "N", "o", "b", "e", "l", "s", "t", "r", ".", "\t", "4", ".", "9", "\t", "4", ".", "9">>,
  <<"5", "6", "7", "\t", "O", "b", "e", "r", "e", "r", " ", "L", "ä", "h", "r", "e", "r", " ", "W", "e", "g", "\t", "1", ".", "5", "\t", "1", ".", "5">>,
  <<"5", "6", "7", "\t", "R", "e", "g", "e", "n", "s", "b", "u", "r", "g", "e", "r", " ", "S", "t", "r", ".", "\t", "1", "5", ".", "0", "\t", "2", "6", ".", "7">>,
  <<"5", "6", "7", "\t", "S", "c", "h", "ö", "n", "w", "e", "r", "t", "h", "s", "t", "r", ".", "\t", "2", ".", "2", "\t", "2", ".", "5">>,
  <<"5", "6", "7", "\t", "S", "c", "h", "w", "e", "n", "i", "n", "g", "e", "r", "s", "t", "r", ".", "\t", "3", ".", "9", "\t", "3", ".", "9">>,
  <<"5", "6", "7", "\t", "W", "e", "i", "n", "b", "e", "r", "g", "e", "r", " ", "S", "t", "r", ".", " ", "/", " ", "S", "c", "h", "u", "l", "e", "\t", "7", ".", "4", "\t", "7", ".", "4">>,
  <<"5", "6", "7", "\t", "W", "i", "l", "d", "b", "a", "d", "s", "t", "r", ".", "\t", "6", ".", "3", "\t", "6", ".", "3">>,
  <<"5", "6", "8", "\t", "N", "e", "u", "m", "a", "r", "k", "t", " ", "B", "a", "h", "n", "h", "o", "f", "\t", "0", ".", "0", "\t", "1", "3", "1", ".", "3">>,
  <<"5", "6", "8", "\t", "Ä", "r", "z", "t", "e", "h", "a", "u", "s", "\t", "0", ".", "0", "\t", "1", "1", ".", "1">>,
  <<"5", "6", "8", "\t", "B", "e", "r", "u", "f", "s", "s", "c", "h", "u", "l", "z", "e", "n", "t", "r", "u", "m", "\t", "5", "6", ".", "8", "\t", "5", "6", ".", "8">>,
  <<"5", "6", "8", "\t", "D", "e", "i", "n", "i", "n", "g", "e", "r", " ", "W", "e", "g", " ", "/", " ", "S", "p", "o", "r", "t", "z", ".", "\t", "3", ".", "6", "\t", "3", ".", "6">>,
  <<"5", "6", "8", "\t", "F", "a", ".", " ", "B", "i", "o", "n", "o", "r", "i", "c", "a", "\t", "4", ".", "6", "\t", "4", ".", "6">>,
  <<"5", "6", "8", "\t", "F", "a", ".", " ", "D", "e", "h", "n", "\t", "1", ".", "2", "\t", "1", ".", "2">>,
  <<"5", "6", "8", "\t", "F", "a", ".", " ", "P", "f", "l", "e", "i", "d", "e", "r", "e", "r", "\t", "1", ".", "6", "\t", "1", ".", "6">>,
  <<"5", "6", "8", "\t", "F", "i", "n", "a", "n", "z", "a", "m", "t", "\t", "0", ".", "0", "\t", "1", ".", "6">>,
  <<"5", "6", "8", "\t", "F", "ö", "r", "s", "t", "e", "r", "s", "t", "e", "i", "g", "\t", "5", ".", "5", "\t", "5", ".", "5">>,
  <<"5", "6", "8", "\t", "H", "a", "s", "e", "n", "h", "e", "i", "d", "e", " ", "K", "i", "r", "c", "h", "e", "\t", "8", ".", "3", "\t", "8", ".", "3">>,
  <<"5", "6", "8", "\t", "H", "a", "s", "e", "n", "h", "e", "i", "d", "e", " ", "S", "c", "h", "u", "l", "e", "\t", "3", "1", ".", "6", "\t", "3", "1", ".", "6">>,
  <<"5", "6", "8", "\t", "I", "n", "g", "o", "l", "s", "t", "ä", "d", "t", "e", "r", " ", "S", "t", "r", ".", "\t", "6", ".", "5", "\t", "6", ".", "5">>,
  <<"5", "6", "8", "\t", "K", "e", "r", "s", "c", "h", "e", "n", "s", "t", "e", "i", "n", "e", "r", "s", "t", "r", ".", "\t", "0", ".", "0", "\t", "2", "2", ".", "6">>,
  <<"5", "6", "8", "\t", "L", "u", "d", "w", "i", "g", "-", "W", "i", "f", "l", "i", "n", "g", "-", "S", "t", "r", ".", "\t", "7", ".", "5", "\t", "7", ".", "5">>,
  <<"5", "6", "8", "\t", "M", "e", "d", "e", "r", "e", "r", "s", "t", "r", ".", "\t", "4", ".", "6", "\t", "4", ".", "6">>,
  <<"5", "6", "8", "\t", "R", "e", "g", "e", "n", "s", "b", "u", "r", "g", "e", "r", " ", "S", "t", "r", ".", "\t", "0", ".", "0", "\t", "1", "1", ".", "7">>,
  <<"5", "6", "8", "\t", "S", "c", "h", "ö", "n", "w", "e", "r", "t", "h", "s", "t", "r", ".", "\t", "0", ".", "0", "\t", "0", ".", "3">>,
  <<"5", "6", "8", "\t", "S", "t", "a", "d", "t", "w", "e", "r", "k", "e", "\t", "3", "6", ".", "8", "\t", "3", "6", ".", "8">>,
  <<"5", "6", "9", "\t", "N", "e", "u", "m", "a", "r", "k", "t", " ", "B", "a", "h", "n", "h", "o", "f", "\t", "0", ".", "0", "\t", "2", "9", ".", "0">>,
  <<"5", "6", "9", "\t", "O", "b", "e", "r", "e", "r", " ", "M", "a", "r", "k", "t", "\t", "0", ".", "0", "\t", "1", ".", "2">>,
  <<"5", "6", "9", "\t", "R", "a", "t", "h", "a", "u", "s", "\t", "0", ".", "0", "\t", "9", ".", "7">>,
  <<"5", "6", "9", "\t", "R", "a", "m", "o", "l", "d", "p", "l", "a", "t", "z", " ", "(", "B", "e", "r", "n", "g", "a", "u", ")", " ", "n", "u", "r", " ", "b", "i", "s", " ", "0", "9", "/", "2", "4", "\t", "2", ".", "6", "\t", "2", ".", "6">>,
  <<"5", "6", "9", "\t", "R", "e", "i", "f", "e", "n", "s", "t", "e", "i", "n", " ", "(", "B", "e", "r", "n", "g", "a", "u", ")", " ", "n", "u", "r", " ", "b", "i", "s", " ", "0", "9", "/", "2", "4", "\t", "1", ".", "7", "\t", "1", ".", "7">>,
  <<"5", "6", "9", "\t", "A", "l", "o", "i", "s", "-", "S", "e", "n", "e", "f", "e", "l", "d", "e", "r", "-", "S", "t", "r", ".", "\t", "0", ".", "0", "\t", "0", ".", "0">>,
  <<"5", "6", "9", "\t", "F", "a", ".", " ", "A", "p", "t", "i", "v", "\t", "0", ".", "1", "\t", "0", ".", "1">>,
  <<"5", "6", "9", "\t", "F", "r", "e", "y", "s", "t", "ä", "d", "t", "e", "r", " ", "S", "t", "r", ".", "\t", "0", ".", "8", "\t", "0", ".", "8">>,
  <<"5", "6", "9", "\t", "G", "a", "n", "s", "b", "r", "a", "u", "e", "r", "e", "i", "\t", "1", "6", ".", "4", "\t", "1", "6", ".", "4">>,
  <<"5", "6", "9", "\t", "J", "o", "h", "a", "n", "n", "e", "s", "z", "e", "n", "t", "r", "u", "m", "\t", "0", ".", "0", "\t", "3", ".", "3">>,
  <<"5", "6", "9", "\t", "K", "l", "e", "b", "l", " ", "B", "a", "u", "z", "e", "n", "t", "r", "u", "m", "\t", "5", ".", "1", "\t", "5", ".", "1">>,
  <<"5", "6", "9", "\t", "M", "a", "x", "-", "K", "ü", "n", "z", "e", "l", "-", "S", "t", "r", ".", "\t", "4", ".", "8", "\t", "4", ".", "8">>,
  <<"5", "6", "9", "\t", "M", "o", "o", "s", "w", "e", "i", "h", "e", "r", "s", "t", "r", ".", "\t", "1", "1", ".", "4", "\t", "1", "1", ".", "4">>,
  <<"5", "6", "9", "\t", "R", "e", "b", "h", "u", "h", "n", "s", "t", "r", ".", "\t", "1", ".", "6", "\t", "1", ".", "6">>,
  <<"5", "6", "9", "\t", "R", "e", "n", "a", "u", "w", "e", "g", " ", "(", "S", "t", "a", "u", "f", ")", "\t", "4", ".", "4", "\t", "4", ".", "4">>,
  <<"5", "6", "9", "\t", "S", "c", "h", "l", "o", "s", "s", "s", "t", "r", ".", "\t", "3", ".", "7", "\t", "3", ".", "7">>,
  <<"5", "6", "9", "\t", "S", "t", "a", "u", "f", " ", "K", "i", "r", "c", "h", "e", "\t", "7", ".", "3", "\t", "7", ".", "3">>,
  <<"5", "6", "9", "\t", "W", "a", "l", "l", "e", "n", "s", "t", "e", "i", "n", "s", "t", "r", ".", "\t", "2", ".", "1", "\t", "2", ".", "1">>,
  <<"5", "6", "9", "\t", "W", "o", "f", "f", "e", "n", "b", "a", "c", "h", " ", "S", "c", "h", "u", "l", "e", "\t", "5", ".", "9", "\t", "5", ".", "9">>,
  <<"5", "6", "9", "\t", "W", "o", "f", "f", "e", "n", "b", "a", "c", "h", " ", "Z", "e", "n", "t", "r", "u", "m", "\t", "8", ".", "4", "\t", "8", ".", "4">>,
  <<"5", "7", "0", "\t", "N", "e", "u", "m", "a", "r", "k", "t", " ", "B", "a", "h", "n", "h", "o", "f", "\t", "0", ".", "0", "\t", "5", "3", ".", "4">>,
  <<"5", "7", "0", "\t", "O", "b", "e", "r", "e", "r", " ", "M", "a", "r", "k", "t", "\t", "0", ".", "0", "\t", "2", "2", ".", "9">>,
  <<"5", "7", "0", "\t", "R", "a", "t", "h", "a", "u", "s", "\t", "0", ".", "0", "\t", "2", "6", ".", "0">>,
  <<"5", "7", "0", "\t", "A", "m", " ", "L", "e", "t", "t", "e", "n", "\t", "1", ".", "9", "\t", "1", ".", "9">>,
  <<"5", "7", "0", "\t", "B", "R", "K", "-", "A", "l", "t", "e", "n", "h", "e", "i", "m", "\t", "4", ".", "0", "\t", "4", ".", "0">>,
  <<"5", "7", "0", "\t", "J", "o", "h", "a", "n", "n", "e", "s", "z", "e", "n", "t", "r", "u", "m", "\t", "0", ".", "0", "\t", "9", ".", "9">>,
  <<"5", "7", "0", "\t", "K", "r", "e", "u", "z", "s", "t", "r", ".", "\t", "0", ".", "0", "\t", "1", "0", ".", "9">>,
  <<"5", "7", "0", "\t", "M", "e", "u", "s", "e", "l", "s", "t", "r", ".", "\t", "0", ".", "0", "\t", "8", ".", "1">>,
  <<"5", "7", "0", "\t", "T", "y", "r", "o", "l", "s", "b", "e", "r", "g", "e", "r", " ", "S", "t", "r", ".", "\t", "6", ".", "8", "\t", "6", ".", "8">>,
  <<"5", "7", "0", "\t", "V", "o", "l", "k", "s", "f", "e", "s", "t", "p", "l", "a", "t", "z", "\t", "0", ".", "0", "\t", "1", "0", ".", "7">>,
  <<"5", "7", "0", "\t", "W", "o", "f", "f", "e", "n", "b", "a", "c", "h", "e", "r", " ", "S", "t", "r", ".", "\t", "0", ".", "0", "\t", "5", ".", "5">>,
  <<"5", "7", "0", "\t", "W", "o", "f", "f", "e", "n", "b", "a", "c", "h", " ", "K", "i", "r", "c", "h", "e", "\t", "9", ".", "9", "\t", "9", ".", "9">>
>>

\* keyword in name_lower
InName(keyword, name) ==
  \E i \in 0..(Len(name) - Len(keyword)) : SubSeq(name, i + 1, i + Len(keyword)) = keyword

core_keywords ==
  {<<"b", "a", "h", "n", "h", "o", "f">>, <<"m", "a", "r", "k", "t">>,
   <<"r", "a", "t", "h", "a", "u", "s">>, <<"z", "e", "n", "t", "r", "u", "m">>,
   <<"k", "l", "i", "n", "i", "k", "u", "m">>,
   <<"l", "a", "n", "d", "r", "a", "t", "s", "a", "m", "t">>}

remote_keywords ==
  {<<"m", "ü", "h", "l", "e">>, <<"h", "o", "f">>, <<"b", "e", "r", "g">>,
   <<"t", "a", "l">>, <<"d", "o", "r", "f">>}

\* BusStop._calculate_priority
_calculate_priority(passengers_total) ==
  IF PyGreater(passengers_total, VInt(100)) THEN "critical"
  ELSE IF PyGreater(passengers_total, VInt(50)) THEN "high"
  ELSE IF PyGreater(passengers_total, VInt(20)) THEN "medium"
  ELSE "low"

\* BusStop._determine_zone
_determine_zone(name) ==
  IF \E keyword \in core_keywords : InName(keyword, PyLower(name)) THEN "core"
  ELSE IF \E keyword \in remote_keywords : InName(keyword, PyLower(name)) THEN "remote"
  ELSE "suburban"

\* weekday_ratio of BusStop._analyze_demand_pattern: the int 0 when the
\* total is not above 0
weekday_ratio(passengers_weekday, passengers_total) ==
  IF PyGreater(passengers_total, VInt(0))
  THEN PyTrueDiv(passengers_weekday, passengers_total)
  ELSE VInt(0)

\* the pattern of a weekday_ratio, against the floats 0.8 and 0.6
PatternOfRatio(ratio) ==
  IF PyGreater(ratio, VFloat(FALSE, 0, <<"8">>)) THEN "business_focused"
  ELSE IF PyGreater(ratio, VFloat(FALSE, 0, <<"6">>)) THEN "mixed_use"
  ELSE "leisure_focused"

\* BusStop._analyze_demand_pattern
_analyze_demand_pattern(passengers_weekday, passengers_total) ==
  PatternOfRatio(weekday_ratio(passengers_weekday, passengers_total))

\* BusStop(name, passengers_weekday, passengers_total, route_numbers)
BusStop(name, passengers_weekday, passengers_total, route_numbers) ==
  [name |-> name,
   passengers_weekday |-> passengers_weekday,
   passengers_total |-> passengers_total,
   route_numbers |-> route_numbers,
   priority |-> _calculate_priority(passengers_total),
   zone |-> _determine_zone(name),
   demand_pattern |-> _analyze_demand_pattern(passengers_weekday, passengers_total)]

\* stop_name in stop_dict, the dict local to one call of parse_real_data
InStopDict(dict, stop_name) == stop_name \in DOMAIN dict

\* stop_dict[stop_name], as the place of the stop in the list stops
StopDict(dict, stop_name) == dict[stop_name]

\* the else branch: the counts of a stop seen before grow, its route is noted
Accumulate(stop, route_num, weekday, total) ==
  [stop EXCEPT !.passengers_weekday = PyFloatAdd(@, weekday),
               !.passengers_total = PyFloatAdd(@, total),
               !.route_numbers = IF \E k \in 1..Len(@) : @[k] = route_num
                                 THEN @ ELSE Append(@, route_num)]

\* the list stops after one line
StopsAfter(stops, dict, route_num, stop_name, weekday, total) ==
  IF ~InStopDict(dict, stop_name)
  THEN Append(stops, BusStop(stop_name, weekday, total, <<route_num>>))
  ELSE [stops EXCEPT ![StopDict(dict, stop_name)] = Accumulate(@, route_num, weekday, total)]

\* stop_dict after one line: a stop not seen in this call is the new last
\* stop of the list
StopDictAfter(stops, dict, stop_name) ==
  IF ~InStopDict(dict, stop_name) THEN dict @@ (stop_name :> Len(stops) + 1) ELSE dict

\* self.routes[route_num] on a defaultdict(list): a key that is missing is
\* set to the empty list
RoutesRead(routes, route_num) ==
  IF route_num \in DOMAIN routes THEN routes ELSE routes @@ (route_num :> <<>>)

\* self.routes[route_num].append(stop); a route holds its stops by their
\* place in the list stops
RoutesAfter(routes, route_num, stop) ==
  [RoutesRead(routes, route_num) EXCEPT ![route_num] = Append(@, stop)]

\* float(field) if field else 0.0; every number of raw_data is a literal
\* that float() reads
FloatOfField(field) ==
  IF field # <<>> THEN PyFloatOfStr(field).v ELSE VFloat(FALSE, 0, <<>>)

\* the optimizer and stop_dict after a line of four parts or more
ParsedParts(self, stops, dict, route_num, stop_name) ==
  [self |-> [self EXCEPT !.stops = stops,
                         !.routes = RoutesAfter(self.routes, route_num,
                                                StopDict(dict, stop_name))],
   stop_dict |-> dict]

\* the optimizer and stop_dict after one line of raw_data,
\* parts = line.split('\t')
ParsedSplit(self, dict, parts) ==
  IF Len(parts) >= 4
  THEN ParsedParts(self,
                   StopsAfter(self.stops, dict, parts[1], parts[2],
                              FloatOfField(parts[3]), FloatOfField(parts[4])),
                   StopDictAfter(self.stops, dict, parts[2]),
                   parts[1], parts[2])
  ELSE [self |-> self, stop_dict |-> dict]

ParsedLine(self, dict, ln) == ParsedSplit(self, dict, PySplit(ln, "\t"))

\* SmartBusOptimizer.__init__ up to the call of parse_real_data
NewOptimizer == [stops |-> <<>>, routes |-> <<>>, current_schedules |-> <<>>]

\* _calculate_trips: four peak hours, the other hours of service off peak
peak_hours == 4

_calculate_trips(peak_freq, offpeak_freq, service_hours) ==
  (peak_hours * 60) \div peak_freq
  + (((service_hours[2] - service_hours[1]) - peak_hours) * 60) \div offpeak_freq

\* the stops of a route, as BusStop objects
RouteStops(self, route) == <<>> \o [i \in 1..Len(route) |-> self.stops[route[i]]]

\* sum(stop.passengers_total for stop in stops)
TotalPassengers(stops) ==
  PySum(<<>> \o [i \in 1..Len(stops) |-> stops[i].passengers_total])

\* the peak and off-peak minutes between two buses before optimization
CurrentFrequencies(route_num) ==
  IF route_num \in {<<"5", "6", "1">>, <<"5", "6", "2">>, <<"5", "6", "3">>} THEN <<15, 30>>
  ELSE IF route_num \in {<<"5", "6", "4">>, <<"5", "6", "5">>, <<"5", "6", "6">>} THEN <<20, 40>>
  ELSE <<30, 60>>

\* the current schedule of a route
CurrentSchedule(route_num, stops) ==
  [frequency_peak |-> CurrentFrequencies(route_num)[1],
   frequency_offpeak |-> CurrentFrequencies(route_num)[2],
   service_hours |-> <<6, 22>>,
   daily_trips |-> _calculate_trips(CurrentFrequencies(route_num)[1],
                                    CurrentFrequencies(route_num)[2], <<6, 22>>),
   total_passengers |-> TotalPassengers(stops)]

\* _initialize_current_schedules: a schedule for every route of self.routes
_initialize_current_schedules(self) ==
  [self EXCEPT !.current_schedules =
     [r \in DOMAIN self.routes \cup DOMAIN self.current_schedules |->
        IF r \in DOMAIN self.routes
        THEN CurrentSchedule(r, RouteStops(self, self.routes[r]))
        ELSE self.current_schedules[r]]]

bus_capacity == 80

cost_per_trip == 25

\* the RouteMetrics of a route with the stops given and daily_trips trips a day
RouteMetrics(stops, total_passengers, daily_trips) ==
  [passengers_per_day |-> total_passengers,
   efficiency_score |-> IF stops # <<>> THEN PyTrueDiv(total_passengers, VInt(Len(stops)))
                        ELSE VInt(0),
   cost_per_passenger |-> IF PyGreater(total_passengers, VInt(0))
                          THEN PyTrueDiv(VInt(daily_trips * cost_per_trip), total_passengers)
                          ELSE VInf(FALSE),
   occupancy_rate |-> PyMin(IF daily_trips > 0
                            THEN PyTrueDiv(PyTrueDiv(total_passengers, VInt(daily_trips)),
                                           VInt(bus_capacity))
                            ELSE VInt(0),
                            VFloat(FALSE, 1, <<>>)),
   revenue_potential |-> PyMul(total_passengers, VFloat(FALSE, 2, <<"5">>))]

\* calculate_route_metrics(route_num) on the optimizer after its read of
\* self.routes[route_num]: KeyError when the route has no current schedule
calculate_route_metrics(self, route_num) ==
  IF route_num \notin DOMAIN self.current_schedules THEN Raise
  ELSE Ok(RouteMetrics(RouteStops(self, self.routes[route_num]),
                       TotalPassengers(RouteStops(self, self.routes[route_num])),
                       self.current_schedules[route_num].daily_trips))

\* len([s for s in stops if s.zone == "core"])
CoreStops(stops) == Cardinality({i \in 1..Len(stops) : stops[i].zone = "core"})

\* the five factors of optimize_route_frequency
demand_score(metrics) ==
  PyMin(PyTrueDiv(metrics.passengers_per_day, VInt(100)), VFloat(FALSE, 3, <<>>))

zone_score(stops) ==
  IF stops # <<>>
  THEN PyAdd(VFloat(FALSE, 1, <<>>),
             PyMul(PyTrueDiv(VInt(CoreStops(stops)), VInt(Len(stops))),
                   VFloat(FALSE, 0, <<"5">>)))
  ELSE VFloat(FALSE, 1, <<>>)

occupancy_score(metrics) ==
  PyAdd(VFloat(FALSE, 1, <<>>),
        PyMul(PyMax(VInt(0), PySub(metrics.occupancy_rate, VFloat(FALSE, 0, <<"7">>))),
              VInt(2)))

connectivity_score(stops) ==
  PyAdd(VFloat(FALSE, 1, <<>>),
        PyMul(PyTrueDiv(VInt(Len(stops)), VInt(20)), VFloat(FALSE, 0, <<"3">>)))

cost_score(metrics) ==
  PyMax(VFloat(FALSE, 0, <<"5">>),
        PySub(VFloat(FALSE, 2, <<>>), PyTrueDiv(metrics.cost_per_passenger, VInt(5))))

\* the five factors and their product over 5
OptimizationFactors(d, z, o, c, cost) ==
  [demand_score |-> d, zone_score |-> z, occupancy_score |-> o,
   connectivity_score |-> c, cost_score |-> cost,
   final_multiplier |-> PyTrueDiv(PyMul(PyMul(PyMul(PyMul(d, z), o), c), cost), VInt(5))]

\* the hours of service of a route by its passengers a day
ServiceHours(passengers_per_day) ==
  IF PyGreater(passengers_per_day, VInt(200)) THEN <<5, 23>>
  ELSE IF PyGreater(passengers_per_day, VInt(50)) THEN <<6, 22>>
  ELSE <<7, 21>>

\* max(floor, int(base / multiplier)): ZeroDivisionError on a multiplier of
\* zero, ValueError or OverflowError when the quotient is no finite number
OptimalFrequency(floor, base, multiplier) ==
  IF multiplier.k = "float" /\ IsZeroMag(multiplier) THEN Raise
  ELSE IF PyIntTrunc(PyTrueDiv(VInt(base), multiplier)).raised THEN Raise
  ELSE Ok(IF PyIntTrunc(PyTrueDiv(VInt(base), multiplier)).v.n > floor
          THEN PyIntTrunc(PyTrueDiv(VInt(base), multiplier)).v.n ELSE floor)

\* the dict optimize_route_frequency returns
OptimizedSchedule(optimal_peak, optimal_offpeak, service_hours, factors) ==
  [frequency_peak |-> optimal_peak,
   frequency_offpeak |-> optimal_offpeak,
   service_hours |-> service_hours,
   daily_trips |-> _calculate_trips(optimal_peak, optimal_offpeak, service_hours),
   optimization_factors |-> factors]

OptimizedWith(metrics, factors, optimal_peak, optimal_offpeak) ==
  IF optimal_peak.raised \/ optimal_offpeak.raised THEN Raise
  ELSE Ok(OptimizedSchedule(optimal_peak.v, optimal_offpeak.v,
                            ServiceHours(metrics.passengers_per_day), factors))

OptimizedFrom(metrics, factors) ==
  OptimizedWith(metrics, factors,
                OptimalFrequency(5, 20, factors.final_multiplier),
                OptimalFrequency(10, 40, factors.final_multiplier))

OptimizedOf(metrics, stops) ==
  OptimizedFrom(metrics,
                OptimizationFactors(demand_score(metrics), zone_score(stops),
                                    occupancy_score(metrics), connectivity_score(stops),
                                    cost_score(metrics)))

\* optimize_route_frequency(route_num) on the optimizer after its read of
\* self.routes[route_num]
optimize_route_frequency(self, route_num) ==
  IF calculate_route_metrics(self, route_num).raised THEN Raise
  ELSE OptimizedOf(calculate_route_metrics(self, route_num).v,
                   RouteStops(self, self.routes[route_num]))

\* ------------------------------------------------------------------------
\* The caller: it holds the input table df and calls format_df_for_gtfs on
\* df or on a table an earlier call returned.
\* ------------------------------------------------------------------------

\* optimizer is the SmartBusOptimizer (its stops, routes and current
\* schedules), line the number of lines of raw_data that the running call of
\* parse_real_data has been through, stop_dict the dict local to that call,
\* parses the calls of parse_real_data made, ready whether __init__ has
\* returned, result the outcome of the last call of a method that returns
\* a value, today the day the clock gave when it was last read (the clock
\* moves on by itself)
VARIABLES heap, df, calls, threads, optimizer, line, stop_dict, parses, ready, result, today

vars == <<heap, df, calls, threads, optimizer, line, stop_dict, parses, ready, result, today>>

\* the first of the days
FirstDay == CHOOSE d \in Todays : \A e \in Todays : d <= e

\* the days the clock may give at n reads one after the other, from the day
\* d on: the same day, or midnight passes before one of the reads (a call
\* that follows another reads the clock later, a row is converted after the
\* row above it).  The clock is watched where it is read, up to the last of
\* the days.
ClockRuns(d, n) ==
  IF NextDay(d) \in Todays
  THEN {[i \in 1..n |-> IF i <= k THEN d ELSE NextDay(d)] : k \in 0..n}
  ELSE {[i \in 1..n |-> d]}

\* the day of the clock after the reads days
ClockAfter(days) == IF days = <<>> THEN today ELSE days[Len(days)]

Init ==
  /\ \E t \in InputTables : heap = <<t>>
  /\ today = FirstDay
  /\ df = 1
  /\ calls = <<>>
  /\ threads = <<>>
  /\ optimizer = NewOptimizer
  /\ line = 0
  /\ stop_dict = <<>>
  /\ parses = 0
  /\ ready = FALSE
  /\ result = Ok(VNone)

\* the table objects the caller holds a reference to
KnownRefs == {df} \cup {calls[i].ret : i \in {j \in 1..Len(calls) : ~calls[j].raised}}

\* one call format_df_for_gtfs(arg): the record keeps the argument, its
\* cells at the time of the call, the days the clock gave, and the outcome
CallOutcome(arg, days, res) ==
  /\ heap' = res.heap
  /\ calls' = Append(calls, [arg |-> arg, input |-> heap[arg], days |-> days,
                             raised |-> res.raised, ret |-> res.ref])
  /\ today' = ClockAfter(days)

Call(arg) ==
  /\ Len(calls) < MaxCalls
  /\ \E days \in ClockRuns(today, ClockReads(heap[arg])) :
       CallOutcome(arg, days, format_df_for_gtfs(heap, arg, days))
  /\ UNCHANGED <<df, threads, optimizer, line, stop_dict, parses, ready, result>>

Next == \E arg \in KnownRefs : Call(arg)

Spec == Init /\ [][Next]_vars

\* ------------------------------------------------------------------------
\* Concurrent callers: two threads, each calling format_df_for_gtfs on a
\* table of its own, over and over.  A thread can be pre-empted between the
\* statements of the function: after the copy (line 161), after the geometry
\* block (163-179), after each column assignment (191-203).
\* ------------------------------------------------------------------------

Threads == {1, 2}

\* the tables of a thread: thread 1 holds a table of one row with the
\* columns stop_lat, stop_lon and geometry (an object with lon and lat),
\* thread 2 one with the columns stop_name and arrival_time, or a table of
\* one column "date" that holds the text of a time of day
ThreadTables(i) ==
  IF i = 1 THEN {t \in RowTables : /\ NumRows(t) = 1
                                   /\ t.cols[1] = "stop_lat"
                                   /\ t.data[3][1] = VPoint(2)}
  ELSE {t \in RowTables : NumRows(t) = 1 /\ t.cols[1] = "stop_name"}
       \cup {t \in CellTables : /\ t.cols[1] = "date"
                                /\ t.data[1][1] = VStr(<<"0", "5", ":", "0", "3", ":", "0", "0">>)}

\* a thread about to call format_df_for_gtfs on its table, made calls done
AboutToCall(i, table, made) ==
  [pc |-> "copy", arg |-> i, input |-> table, out |-> 0, col |-> 0, made |-> made,
   days |-> <<>>]

InitThreads ==
  /\ \E a \in ThreadTables(1) : \E b \in ThreadTables(2) :
       /\ heap = <<a, b>>
       /\ threads = [i \in Threads |-> AboutToCall(i, <<a, b>>[i], 0)]
  /\ df = 1
  /\ calls = <<>>
  /\ optimizer = NewOptimizer
  /\ line = 0
  /\ stop_dict = <<>>
  /\ parses = 0
  /\ ready = FALSE
  /\ result = Ok(VNone)
  /\ today = FirstDay

\* line 161, c the copy made
ThreadCopied(i, c) ==
  /\ heap' = c.heap
  /\ threads' = [threads EXCEPT ![i].pc = "enrich", ![i].out = c.ref,
                                ![i].input = heap[threads[i].arg]]
  /\ UNCHANGED <<df, calls, optimizer, line, stop_dict, parses, ready, result, today>>

ThreadCopy(i) ==
  /\ threads[i].pc = "copy"
  /\ threads[i].made < MaxCalls
  /\ ThreadCopied(i, DfCopy(heap, threads[i].arg))

\* lines 163-179
ThreadEnrich(i) ==
  /\ threads[i].pc = "enrich"
  /\ heap' = EnrichGeometry(heap, threads[i].out)
  /\ threads' = [threads EXCEPT ![i].pc = "convert", ![i].col = 1]
  /\ UNCHANGED <<df, calls, optimizer, line, stop_dict, parses, ready, result, today>>

\* the end of a call of thread i: its record is kept, the thread calls again
ThreadEnds(i, raised, ret) ==
  /\ calls' = Append(calls, [arg |-> threads[i].arg, input |-> threads[i].input,
                             days |-> threads[i].days, raised |-> raised, ret |-> ret])
  /\ threads' = [threads EXCEPT ![i] = AboutToCall(i, threads[i].input, threads[i].made + 1)]
  /\ UNCHANGED <<df, optimizer, line, stop_dict, parses, ready, result>>

\* one round of the loop of lines 191-203, m the outcome of out[c].map(f)
\* while the clock gave the days days
ThreadConverted(i, m, days) ==
  IF m.raised
  THEN /\ heap' = heap
       /\ ThreadEnds(i, TRUE, 0)
  ELSE /\ heap' = [heap EXCEPT ![threads[i].out].data[threads[i].col] = m.col]
       /\ threads' = [threads EXCEPT ![i].col = threads[i].col + 1,
                                     ![i].days = threads[i].days \o days]
       /\ UNCHANGED <<df, calls, optimizer, line, stop_dict, parses, ready, result>>

\* the days the clock may give at the rows of a column named name: a date
\* column reads it at every row
ColumnRuns(name, col) ==
  IF name \in date_cols THEN ClockRuns(today, Len(col)) ELSE {<<>>}

ThreadConvert(i) ==
  /\ threads[i].pc = "convert"
  /\ threads[i].col <= Len(heap[threads[i].out].cols)
  /\ \E days \in ColumnRuns(heap[threads[i].out].cols[threads[i].col],
                             heap[threads[i].out].data[threads[i].col]) :
       /\ ThreadConverted(i, MapColumn(heap[threads[i].out].cols[threads[i].col],
                                       heap[threads[i].out].data[threads[i].col], days),
                          days)
       /\ today' = ClockAfter(days)

\* line 206, ret the table handed back
ThreadReturned(i, ret) ==
  /\ heap' = ret.heap
  /\ ThreadEnds(i, FALSE, ret.ref)

ThreadReturn(i) ==
  /\ threads[i].pc = "convert"
  /\ threads[i].col > Len(heap[threads[i].out].cols)
  /\ ThreadReturned(i, ReturnValue(heap, threads[i].arg, threads[i].out))
  /\ UNCHANGED today

NextThreads ==
  \E i \in Threads :
    \/ ThreadCopy(i)
    \/ ThreadEnrich(i)
    \/ ThreadConvert(i)
    \/ ThreadReturn(i)

SpecThreads == InitThreads /\ [][NextThreads]_vars

\* ------------------------------------------------------------------------
\* SmartBusOptimizer: __init__ calls parse_real_data, one step per line of
\* raw_data, then _initialize_current_schedules; the caller then calls
\* parse_real_data, calculate_route_metrics and optimize_route_frequency,
\* one call after the other.  The methods that report (generate_recommendations,
\* print_before_after_analysis, export_comprehensive_comparison,
\* generate_implementation_plan) are outside the model.
\* ------------------------------------------------------------------------

\* the calls of parse_real_data, the one of __init__ among them
MaxParses == 2

\* the routes asked about: three routes of raw_data, one of each pair of
\* current frequencies, and two routes that raw_data does not hold
RouteArgs ==
  {<<"5", "6", "2">>, <<"5", "6", "6">>, <<"5", "7", "0">>, <<"9", "9", "9">>,
   <<"9", "9", "8">>}

\* __init__ has set the attributes and calls parse_real_data
InitParse ==
  /\ optimizer = NewOptimizer
  /\ line = 0
  /\ stop_dict = <<>>
  /\ parses = 1
  /\ ready = FALSE
  /\ result = Ok(VNone)
  /\ heap = <<>>
  /\ df = 0
  /\ calls = <<>>
  /\ threads = <<>>
  /\ today = FirstDay

\* no call is running
Idle == ready /\ line = Len(raw_data)

ParsedTo(p) ==
  /\ optimizer' = p.self
  /\ stop_dict' = p.stop_dict
  /\ line' = line + 1
  /\ UNCHANGED <<heap, df, calls, threads, parses, ready, result, today>>

\* one round of the loop over the lines
ParseLine ==
  /\ line < Len(raw_data)
  /\ ParsedTo(ParsedLine(optimizer, stop_dict, raw_data[line + 1]))

\* the end of __init__: _initialize_current_schedules once parse_real_data
\* has returned
InitializeCurrentSchedules ==
  /\ ~ready
  /\ line = Len(raw_data)
  /\ optimizer' = _initialize_current_schedules(optimizer)
  /\ ready' = TRUE
  /\ UNCHANGED <<heap, df, calls, threads, line, stop_dict, parses, result, today>>

\* a further call of parse_real_data(): it starts on an empty stop_dict and
\* returns None
CallParseRealData ==
  /\ Idle
  /\ parses < MaxParses
  /\ parses' = parses + 1
  /\ line' = 0
  /\ stop_dict' = <<>>
  /\ result' = Ok(VNone)
  /\ UNCHANGED <<heap, df, calls, threads, optimizer, ready, today>>

\* a call that reads self.routes[route_num] and then returns or raises res
RouteCalled(self, res) ==
  /\ optimizer' = self
  /\ result' = res
  /\ UNCHANGED <<heap, df, calls, threads, line, stop_dict, parses, ready, today>>

CalculateRouteMetrics(route_num) ==
  /\ Idle
  /\ RouteCalled([optimizer EXCEPT !.routes = RoutesRead(@, route_num)],
                 calculate_route_metrics(
                   [optimizer EXCEPT !.routes = RoutesRead(@, route_num)], route_num))

OptimizeRouteFrequency(route_num) ==
  /\ Idle
  /\ RouteCalled([optimizer EXCEPT !.routes = RoutesRead(@, route_num)],
                 optimize_route_frequency(
                   [optimizer EXCEPT !.routes = RoutesRead(@, route_num)], route_num))

NextParse ==
  \/ ParseLine
  \/ InitializeCurrentSchedules
  \/ CallParseRealData
  \/ \E route_num \in RouteArgs : CalculateRouteMetrics(route_num)
  \/ \E route_num \in RouteArgs : OptimizeRouteFrequency(route_num)

SpecParse == InitParse /\ [][NextParse]_vars

\* ------------------------------------------------------------------------
\* Properties
\* ------------------------------------------------------------------------

\* the calls made so far that returned a table
Returned == {i \in 1..Len(calls) : ~calls[i].raised}

\* the table a call was given, as it was at the call
InTable(i) == calls[i].input

\* the table a call returned
OutTable(i) == heap[calls[i].ret]

\* the output cell of a call under the column of the same name
OutCell(i, c, r) == OutTable(i).data[ColIndex(OutTable(i), InTable(i).cols[c])][r]

Cells(t) == {<<c, r>> : c \in 1..Len(t.cols), r \in 1..NumRows(t)}

\* C1: whatever the column rule, a cell holding any representation of an
\* absent value (None, float NaN, NumPy NaN of any width, NaT, NA) comes out
\* as the empty string (cells the geometry enrichment may fill are left out).
C1_NullGivesEmpty ==
  \A i \in Returned : \A p \in Cells(InTable(i)) :
    LET t == InTable(i)
    IN  (/\ IsNaScalar(t.data[p[1]][p[2]])
         /\ ~(Enrichable(t) /\ t.cols[p[1]] \in {"stop_lat", "stop_lon"}))
        => OutCell(i, p[1], p[2]) = EmptyStr

\* C2: no call raises, whatever the cells hold.
C2_NeverRaises == \A i \in 1..Len(calls) : ~calls[i].raised

\* C3: the table given to a call has, after the call and ever after, the
\* cells it had when the call was made.
C3_InputUnchanged == \A i \in 1..Len(calls) : heap[calls[i].arg] = calls[i].input

\* a call returned, and the enrichment and the rules changed cells of its copy
C3_Witness ==
  \E i \in Returned :
    /\ Enrichable(InTable(i))
    /\ \E r \in 1..NumRows(InTable(i)) :
         /\ IsNaScalar(InTable(i).data[ColIndex(InTable(i), "stop_lat")][r])
         /\ OutTable(i).data[ColIndex(OutTable(i), "stop_lat")][r] # EmptyStr
    /\ heap[calls[i].arg] # OutTable(i)

\* C4: every cell of a returned table is a string.
C4_AllCellsStrings ==
  \A i \in Returned : \A p \in Cells(OutTable(i)) : IsStr(OutTable(i).data[p[1]][p[2]])

\* a returned table whose input held a non-string in an unclassified column
C4_Witness ==
  \E i \in Returned : \E p \in Cells(InTable(i)) :
    /\ InTable(i).cols[p[1]] = "stop_id"
    /\ InTable(i).data[p[1]][p[2]].k = "int"
    /\ IsStr(OutCell(i, p[1], p[2]))

\* C5: a table returned for an input with a "geometry" column has no
\* "geometry" column.
C5_GeometryDropped ==
  \A i \in Returned : HasCol(InTable(i), "geometry") => ~HasCol(OutTable(i), "geometry")

\* the column names of a table without "geometry", in order
WithoutGeometry(cols) == SelectSeq(cols, LAMBDA c : c # "geometry")

\* the input of a call after the enrichment step
EnrichedInput(i) == EnrichGeometry(<<InTable(i)>>, 1)[1]

\* the day the clock gave while the cell p of a date column was converted
\* by call i
DayOfCell(i, p) == ColumnDays(InTable(i), p[1], calls[i].days)[p[2]]

\* C6: the returned table has the input's column names in the input's order,
\* at most "geometry" being removed, and the input's rows in the input's
\* order: row r of the output is the conversion of row r of the input.
C6_SameColumnsAndRows ==
  \A i \in Returned :
    LET t == InTable(i)
        o == OutTable(i)
    IN  /\ WithoutGeometry(o.cols) = WithoutGeometry(t.cols)
        /\ o.cols \in {t.cols, WithoutGeometry(t.cols)}
        /\ \A c \in 1..Len(o.cols) : Len(o.data[c]) = NumRows(t)
        /\ \A p \in Cells(t) :
             t.cols[p[1]] # "geometry" =>
               OutCell(i, p[1], p[2]) =
                 ConvertCell(t.cols[p[1]], EnrichedInput(i).data[p[1]][p[2]],
                             DayOfCell(i, p)).v

\* a returned table of two rows that differ and several columns
C6_Witness ==
  \E i \in Returned :
    /\ Len(InTable(i).cols) >= 3
    /\ NumRows(InTable(i)) >= 2
    /\ \E c \in 1..Len(InTable(i).cols) : InTable(i).data[c][1] # InTable(i).data[c][2]
    /\ OutTable(i).cols = InTable(i).cols

\* the vertical coordinate a geometry value exposes: y, else lat
ExposesVertical(g) == HasAttr(g, "y") \/ HasAttr(g, "lat")

Vertical(g) == IF HasAttr(g, "y") THEN GetAttr(g, "y") ELSE GetAttr(g, "lat")

\* the horizontal coordinate a geometry value exposes: x, else lon
ExposesHorizontal(g) == HasAttr(g, "x") \/ HasAttr(g, "lon")

Horizontal(g) == IF HasAttr(g, "x") THEN GetAttr(g, "x") ELSE GetAttr(g, "lon")

\* what the enrichment and the float rule make of one latitude or longitude
\* cell, given whether the row's geometry exposes the coordinate and its value
FilledCell(cell, exposes, coord) ==
  IF ~IsNaScalar(cell) THEN _to_float_str(cell).v
  ELSE IF exposes THEN _to_float_str(coord).v
  ELSE EmptyStr

\* C7: on a table with geometry, stop_lat and stop_lon columns, a missing
\* stop_lat comes out as the float rendering of the geometry's y (else lat),
\* a missing stop_lon as that of its x (else lon); a non-missing stop_lat or
\* stop_lon comes out as its own float rendering; with a null geometry, or
\* one without coordinates, a missing one comes out as "".
C7_GeometryFillsMissing ==
  \A i \in Returned :
    LET t == InTable(i)
        o == OutTable(i)
    IN  Enrichable(t) =>
          \A r \in 1..NumRows(t) :
            LET g == t.data[ColIndex(t, "geometry")][r]
            IN  /\ o.data[ColIndex(o, "stop_lat")][r] =
                     FilledCell(t.data[ColIndex(t, "stop_lat")][r],
                                ExposesVertical(g), Vertical(g))
                /\ o.data[ColIndex(o, "stop_lon")][r] =
                     FilledCell(t.data[ColIndex(t, "stop_lon")][r],
                                ExposesHorizontal(g), Horizontal(g))

\* the point (x=11.2, y=49.3) with stop_lat and stop_lon missing gave
\* stop_lat "49.3" and stop_lon "11.2"
C7_Witness ==
  \E i \in Returned :
    LET t == InTable(i)
        o == OutTable(i)
    IN  /\ Enrichable(t)
        /\ \E r \in 1..NumRows(t) :
             /\ t.data[ColIndex(t, "geometry")][r] = VPoint(1)
             /\ IsNaScalar(t.data[ColIndex(t, "stop_lat")][r])
             /\ IsNaScalar(t.data[ColIndex(t, "stop_lon")][r])
             /\ o.data[ColIndex(o, "stop_lat")][r] = VStr(<<"4", "9", ".", "3">>)
             /\ o.data[ColIndex(o, "stop_lon")][r] = VStr(<<"1", "1", ".", "2">>)

\* the rule table of the specification, by exact column name
NamedRule(c) ==
  CASE c \in {"arrival_time", "departure_time", "start_time", "end_time"} -> "time"
    [] c \in {"date", "start_date", "end_date"} -> "date"
    [] c \in {"monday", "tuesday", "wednesday", "thursday", "friday", "saturday", "sunday",
              "pickup_type", "drop_off_type", "wheelchair_accessible", "bikes_allowed"}
         -> "zero_one"
    [] c \in {"stop_sequence", "direction_id", "route_type", "exception_type",
              "location_type", "transfer_type"} -> "int"
    [] c \in {"stop_lat", "stop_lon", "shape_dist_traveled", "shape_pt_lat", "shape_pt_lon"}
         -> "float"
    [] OTHER -> "identity"

RuleOutput(rule, v, day) ==
  CASE rule = "time" -> _to_gtfs_time(v).v
    [] rule = "date" -> _to_gtfs_date(v, day).v
    [] rule = "zero_one" -> _to_zero_one_str(v).v
    [] rule = "int" -> _to_int_str(v).v
    [] rule = "float" -> _to_float_str(v).v
    [] rule = "identity" -> IF IsNaScalar(v) THEN EmptyStr ELSE VStr(PyStrChars(v))

RuleSets == <<time_cols, date_cols, zero_one_cols, int_cols, float_cols>>

\* C8: the five name sets are pairwise disjoint, and every cell of a returned
\* table is the output of the one rule the specification's table names for
\* its exact column name, the identity rule (plain string conversion of a
\* non-null value) for every other name.
C8_RuleByExactName ==
  /\ \A a, b \in 1..5 : a # b => RuleSets[a] \cap RuleSets[b] = {}
  /\ \A i \in Returned : \A p \in Cells(InTable(i)) :
       OutCell(i, p[1], p[2]) =
         RuleOutput(NamedRule(InTable(i).cols[p[1]]), EnrichedInput(i).data[p[1]][p[2]],
                    DayOfCell(i, p))

\* the column "Stop_Lat" holding 2.0 came out as "2.0" (identity), where the
\* float rule gives "2"
C8_Witness ==
  \E i \in Returned :
    /\ InTable(i).cols = <<"Stop_Lat">>
    /\ InTable(i).data[1][1] = VFloat(FALSE, 2, <<>>)
    /\ OutTable(i).data[1][1] = VStr(<<"2", ".", "0">>)
    /\ _to_float_str(VFloat(FALSE, 2, <<>>)).v = VStr(<<"2">>)

\* C9: a cell of a zero-or-one column comes out as "", "0", "1", or as the
\* input string itself when the input is a string.
C9_ZeroOneOutputs ==
  \A i \in Returned : \A p \in Cells(InTable(i)) :
    InTable(i).cols[p[1]] \in zero_one_cols =>
      \/ OutCell(i, p[1], p[2]) \in {EmptyStr, VStr(<<"0">>), VStr(<<"1">>)}
      \/ /\ IsStr(InTable(i).data[p[1]][p[2]])
         /\ OutCell(i, p[1], p[2]) = InTable(i).data[p[1]][p[2]]

\* C10 as stated: in a zero-or-one column the string "2" comes out as "1".
C10_StringTwoGivesOne ==
  \A i \in Returned : \A p \in Cells(InTable(i)) :
    (/\ InTable(i).cols[p[1]] \in zero_one_cols
     /\ InTable(i).data[p[1]][p[2]] = VStr(<<"2">>))
    => OutCell(i, p[1], p[2]) = VStr(<<"1">>)

\* C10 amended: in a zero-or-one column the number 2 (int or float) comes out
\* as "1", and the string "2" comes out unchanged as "2".
C10_NumberTwoGivesOne ==
  \A i \in Returned : \A p \in Cells(InTable(i)) :
    InTable(i).cols[p[1]] \in zero_one_cols =>
      /\ InTable(i).data[p[1]][p[2]] \in {VInt(2), VFloat(FALSE, 2, <<>>)}
           => OutCell(i, p[1], p[2]) = VStr(<<"1">>)
      /\ InTable(i).data[p[1]][p[2]] = VStr(<<"2">>)
           => OutCell(i, p[1], p[2]) = VStr(<<"2">>)

\* a zero-or-one column holding the int 2 came out as "1"
C10_Witness ==
  \E i \in Returned :
    /\ InTable(i).cols = <<"pickup_type">>
    /\ InTable(i).data[1][1] = VInt(2)
    /\ OutTable(i).data[1][1] = VStr(<<"1">>)

\* the input cell of a call at column c, row r
InCell(i, c, r) == InTable(i).data[c][r]

\* the cells of a call's input that lie in a column of the name set names
CellsIn(i, names) == {p \in Cells(InTable(i)) : InTable(i).cols[p[1]] \in names}

\* the nearest integer of a finite number (an int is its own)
Nearest(v) == IF v.k = "float" THEN RoundHalfEven(v) ELSE v.n

\* C11: in a zero-or-one column "0" and "1" come out as themselves; true, t,
\* yes, y in any letter case as "1"; false, f, no, n in any letter case as
\* "0"; the boolean True as "1" and False as "0"; a finite int or float as
\* "0" when its nearest integer is zero and as "1" otherwise.
C11_ZeroOneMapping ==
  \A i \in Returned : \A p \in CellsIn(i, zero_one_cols) :
    LET v == InCell(i, p[1], p[2])
        o == OutCell(i, p[1], p[2])
    IN  /\ v \in {VStr(<<"0">>), VStr(<<"1">>)} => o = v
        /\ (IsStr(v) /\ PyLower(v.s) \in {<<"t", "r", "u", "e">>, <<"t">>,
                                          <<"y", "e", "s">>, <<"y">>})
             => o = VStr(<<"1">>)
        /\ (IsStr(v) /\ PyLower(v.s) \in {<<"f", "a", "l", "s", "e">>, <<"f">>,
                                          <<"n", "o">>, <<"n">>})
             => o = VStr(<<"0">>)
        /\ v.k = "bool" => o = VStr(IF v.n = 1 THEN <<"1">> ELSE <<"0">>)
        /\ v.k \in {"int", "float"}
             => o = VStr(IF Nearest(v) = 0 THEN <<"0">> ELSE <<"1">>)

\* a zero-or-one column holding the token "TRUE" came out as "1"
C11_Witness ==
  \E i \in Returned : \E p \in CellsIn(i, zero_one_cols) :
    /\ InCell(i, p[1], p[2]) = VStr(<<"T", "R", "U", "E">>)
    /\ OutCell(i, p[1], p[2]) = VStr(<<"1">>)

HasChar(s, ch) == \E k \in 1..Len(s) : s[k] = ch

\* no leading and no trailing whitespace
Trimmed(s) == PyStrip(s) = s

\* an optional minus sign and decimal digits
IsIntegerText(s) == AllAsciiDigits(IF s # <<>> /\ s[1] = "-" THEN Tail(s) ELSE s)

\* a value float() turns into a finite number
CoercesToNumber(v) == ~PyFloat(v).raised /\ PyFloat(v).v.k = "float"

\* C12 as stated: every cell of an integer column comes out with no decimal
\* point and no leading or trailing whitespace, whatever the input.
C12_NoDecimalPoint ==
  \A i \in Returned : \A p \in CellsIn(i, int_cols) :
    /\ ~HasChar(OutCell(i, p[1], p[2]).s, ".")
    /\ Trimmed(OutCell(i, p[1], p[2]).s)

\* C12 amended: every cell of an integer column comes out with no leading or
\* trailing whitespace; a cell that coerces to a finite number comes out as
\* an optional minus sign and digits, with no decimal point.
C12_CoercedHasNoDecimalPoint ==
  \A i \in Returned : \A p \in CellsIn(i, int_cols) :
    /\ Trimmed(OutCell(i, p[1], p[2]).s)
    /\ CoercesToNumber(InCell(i, p[1], p[2]))
         => /\ IsIntegerText(OutCell(i, p[1], p[2]).s)
            /\ ~HasChar(OutCell(i, p[1], p[2]).s, ".")

\* an integer column holding the string "2.5" came out as "2"
C12_Witness ==
  \E i \in Returned : \E p \in CellsIn(i, int_cols) :
    /\ InCell(i, p[1], p[2]) = VStr(<<"2", ".", "5">>)
    /\ OutCell(i, p[1], p[2]) = VStr(<<"2">>)

\* the float rule applied to the number a rendered cell parses as
Reformatted(o) == _to_float_str(PyFloat(o).v).v

\* C13: for every cell of a float column whose output parses as a number,
\* the float rule applied to that number gives the same output again.
C13_FloatIdempotent ==
  \A i \in Returned : \A p \in CellsIn(i, float_cols) :
    ~PyFloat(OutCell(i, p[1], p[2])).raised
      => Reformatted(OutCell(i, p[1], p[2])) = OutCell(i, p[1], p[2])

\* the digits after the decimal point of a rendered number
FractionOf(o) == IF HasChar(o, ".") THEN PySplit(o, ".")[2] ELSE <<>>

\* C14: a float-column cell that coerces to a finite number comes out in
\* fixed point, never with an exponent: at most 12 fractional digits, no
\* trailing zero after the point and no bare trailing point, never empty;
\* a value of at most 12 fractional digits comes out with its own value;
\* 1.5000000000001 gives "1.5", 2.0 gives "2", 10 gives "10", 100 gives "100".
C14_FixedPointTrimmed ==
  \A i \in Returned : \A p \in CellsIn(i, float_cols) :
    LET v == InCell(i, p[1], p[2])
        o == OutCell(i, p[1], p[2]).s
    IN  CoercesToNumber(v) =>
          /\ o # <<>>
          /\ ~HasChar(o, "e") /\ ~HasChar(o, "E")
          /\ o[Len(o)] # "."
          /\ HasChar(o, ".") => o[Len(o)] # "0"
          /\ Len(FractionOf(o)) <= 12
          /\ Len(PyFloat(v).v.s) <= 12 => PyFloat(VStr(o)) = PyFloat(v)
          /\ PyFloat(v).v = VFloat(FALSE, 1, <<"5", "0", "0", "0", "0", "0", "0",
                                                "0", "0", "0", "0", "0", "1">>)
               => o = <<"1", ".", "5">>
          /\ PyFloat(v).v = VFloat(FALSE, 2, <<>>) => o = <<"2">>
          /\ PyFloat(v).v = VFloat(FALSE, 10, <<>>) => o = <<"1", "0">>
          /\ PyFloat(v).v = VFloat(FALSE, 100, <<>>) => o = <<"1", "0", "0">>

\* a float column holding 1.5000000000001 came out as "1.5"
C14_Witness ==
  \E i \in Returned : \E p \in CellsIn(i, float_cols) :
    /\ InCell(i, p[1], p[2]) = VFloat(FALSE, 1, <<"5", "0", "0", "0", "0", "0", "0",
                                                  "0", "0", "0", "0", "0", "1">>)
    /\ OutCell(i, p[1], p[2]) = VStr(<<"1", ".", "5">>)

\* the parts of a string cell split at ":", surrounding whitespace stripped
ColonParts(v) == PySplit(PyStrip(v.s), ":")

\* a string of exactly three non-empty parts, the first two integers and
\* the third a finite number
IsHMSText(v) ==
  /\ IsStr(v)
  /\ Len(ColonParts(v)) = 3
  /\ \A k \in 1..3 : ColonParts(v)[k] # <<>>
  /\ ~PyIntOfStr(ColonParts(v)[1]).raised
  /\ ~PyIntOfStr(ColonParts(v)[2]).raised
  /\ CoercesToNumber(VStr(ColonParts(v)[3]))

\* hour, minute and whole second of such a string, the fraction cut off
HMSValues(v) ==
  <<PyIntOfStr(ColonParts(v)[1]).v.n,
    PyIntOfStr(ColonParts(v)[2]).v.n,
    LET f == PyFloatOfStr(ColonParts(v)[3]).v IN IF f.neg THEN 0 - f.n ELSE f.n>>

DigitCount(s) == Len(SelectSeq(s, IsAsciiDigit))

\* o is "HH:MM:SS" for the three numbers hms: three parts, each of at least
\* two digits, each the decimal text of its number
IsPaddedHMS(o, hms) ==
  /\ Len(PySplit(o, ":")) = 3
  /\ \A k \in 1..3 :
       /\ DigitCount(PySplit(o, ":")[k]) >= 2
       /\ ~PyIntOfStr(PySplit(o, ":")[k]).raised
       /\ PyIntOfStr(PySplit(o, ":")[k]).v.n = hms[k]

\* C15 as stated: in a time column every string of three non-empty parts,
\* two integers and a number, comes out as HH:MM:SS, each part zero-padded
\* to at least two digits, the seconds' fraction cut off.
C15_HMSTextPadded ==
  \A i \in Returned : \A p \in CellsIn(i, time_cols) :
    IsHMSText(InCell(i, p[1], p[2]))
      => IsPaddedHMS(OutCell(i, p[1], p[2]).s, HMSValues(InCell(i, p[1], p[2])))

\* C15 amended: the same for strings whose three parts are not negative;
\* "5:3:0" gives "05:03:00" and "1:2:3.9" gives "01:02:03".
C15_NonNegativeHMSTextPadded ==
  \A i \in Returned : \A p \in CellsIn(i, time_cols) :
    LET v == InCell(i, p[1], p[2])
        o == OutCell(i, p[1], p[2])
    IN  /\ (IsHMSText(v) /\ \A k \in 1..3 : HMSValues(v)[k] >= 0
                         /\ ~PyFloatOfStr(ColonParts(v)[3]).v.neg)
             => IsPaddedHMS(o.s, HMSValues(v))
        /\ v = VStr(<<"5", ":", "3", ":", "0">>)
             => o = VStr(<<"0", "5", ":", "0", "3", ":", "0", "0">>)
        /\ v = VStr(<<"1", ":", "2", ":", "3", ".", "9">>)
             => o = VStr(<<"0", "1", ":", "0", "2", ":", "0", "3">>)

\* a time column holding "1:2:3.9" came out as "01:02:03"
C15_Witness ==
  \E i \in Returned : \E p \in CellsIn(i, time_cols) :
    /\ InCell(i, p[1], p[2]) = VStr(<<"1", ":", "2", ":", "3", ".", "9">>)
    /\ OutCell(i, p[1], p[2]) = VStr(<<"0", "1", ":", "0", "2", ":", "0", "3">>)

\* o is the clock text of n seconds: three integers hh:mm:ss with
\* 3600*hh + 60*mm + ss = n and mm, ss in 0..59
IsClockOf(o, n) ==
  /\ Len(PySplit(o, ":")) = 3
  /\ \A k \in 1..3 : ~PyIntOfStr(PySplit(o, ":")[k]).raised
  /\ LET hh == PyIntOfStr(PySplit(o, ":")[1]).v.n
         mm == PyIntOfStr(PySplit(o, ":")[2]).v.n
         ss == PyIntOfStr(PySplit(o, ":")[3]).v.n
     IN  /\ 3600 * hh + 60 * mm + ss = n
         /\ mm \in 0..59
         /\ ss \in 0..59

\* C16: a time-column cell holding an int n, or a float that is not NaN and
\* rounds to n, is converted without an exception and comes out as hh:mm:ss
\* with 3600*hh + 60*mm + ss = n, mm and ss in 0..59 and hh not capped;
\* 3725 gives "01:02:05".
C16_SecondsSinceMidnight ==
  \A i \in 1..Len(calls) : \A p \in CellsIn(i, time_cols) :
    LET v == InCell(i, p[1], p[2])
    IN  v.k \in {"int", "float", "float_inf"} =>
          /\ ~_to_gtfs_time(v).raised
          /\ i \in Returned =>
               /\ IsClockOf(OutCell(i, p[1], p[2]).s, Nearest(v))
               /\ v = VInt(3725) =>
                    OutCell(i, p[1], p[2]) = VStr(<<"0", "1", ":", "0", "2", ":", "0", "5">>)

\* a string that pd.to_datetime reads as a calendar date, whatever the day
ParsesAsDate(s) ==
  \A d \in Todays : ~PdToDatetime(s, d).raised /\ PdToDatetime(s, d).v.k = "timestamp"

\* a text that writes a year, a month and a day with "-" or "/" between
WritesDate(s) == \E c \in {"-", "/"} : Len(PySplit(s, c)) = 3

\* a number yyyymmdd that is a day of the calendar
IsCalendarDate(n) ==
  /\ n \div 10000 \in 1..9999
  /\ (n \div 100) % 100 \in 1..12
  /\ n % 100 \in 1..DaysInMonth(n \div 10000, (n \div 100) % 100)

\* C17: in a date column a string of exactly 8 digits once trimmed comes out
\* as those 8 digits; any other string that parses as a calendar date comes
\* out as YYYYMMDD, eight ASCII digits that are a day of the calendar: the
\* year, month and day the text writes ("2024-03-07" and "2024/03/07" give
\* "20240307"), and the day the clock gave when the cell was converted for
\* a text that writes a time of day only ("05:03:00"); a Timestamp, datetime
\* or date comes out as its YYYYMMDD.
C17_DateAsYYYYMMDD ==
  \A i \in Returned : \A p \in CellsIn(i, date_cols) :
    LET v == InCell(i, p[1], p[2])
        o == OutCell(i, p[1], p[2])
        s == PyStrip(v.s)
    IN  /\ (IsStr(v) /\ Len(s) = 8 /\ PyIsDigit(s)) => o = VStr(s)
        /\ (IsStr(v) /\ s # <<>> /\ ~(Len(s) = 8 /\ PyIsDigit(s)) /\ ParsesAsDate(s))
             => /\ Len(o.s) = 8
                /\ AllAsciiDigits(o.s)
                /\ IsCalendarDate(DigitsToNat(o.s))
                /\ WritesDate(s) => o.s = SelectSeq(s, IsAsciiDigit)
                /\ ~WritesDate(s) => DigitsToNat(o.s) = DayOfCell(i, p)
        /\ v = VStr(<<"2", "0", "2", "4", "/", "0", "3", "/", "0", "7">>)
             => o = VStr(<<"2", "0", "2", "4", "0", "3", "0", "7">>)
        /\ v = VStr(<<"0", "5", ":", "0", "3", ":", "0", "0">>)
             => o = VStr(StrfYmd(DayOfCell(i, p)))
        /\ v = VStr(<<"2", "0", "2", "4", "-", "0", "3", "-", "0", "7">>)
             => o = VStr(<<"2", "0", "2", "4", "0", "3", "0", "7">>)
        /\ v.k \in {"timestamp", "datetime", "date"}
             => /\ Len(o.s) = 8
                /\ DigitsToNat(o.s) = v.n

\* a date column holding "2024-03-07" came out as "20240307"
C17_Witness ==
  \E i \in Returned : \E p \in CellsIn(i, date_cols) :
    /\ InCell(i, p[1], p[2]) = VStr(<<"2", "0", "2", "4", "-", "0", "3", "-", "0", "7">>)
    /\ OutCell(i, p[1], p[2]) = VStr(<<"2", "0", "2", "4", "0", "3", "0", "7">>)

\* what format_df_for_gtfs makes of a table on its own while the clock gives
\* the days days
Alone(t, days) == format_df_for_gtfs(<<t>>, 1, days)

\* whatever calls came before and whatever calls of another thread on
\* another table run in between, a call raises or returns exactly as
\* format_df_for_gtfs does on its table alone under the days its clock
\* gave, the table it returned stays as returned, and the table of every
\* thread stays as it was given: the calls share nothing but the clock
CallsShareOnlyTheClock ==
  /\ \A k \in 1..Len(calls) :
       /\ calls[k].raised = Alone(calls[k].input, calls[k].days).raised
       /\ ~calls[k].raised =>
            heap[calls[k].ret] =
              Alone(calls[k].input, calls[k].days)
                .heap[Alone(calls[k].input, calls[k].days).ref]
  /\ \A i \in DOMAIN threads : heap[threads[i].arg] = threads[i].input

\* C18: the result of a call depends only on its table: two calls given
\* equal tables both raise or return equal tables, whatever calls came
\* before and whatever calls of another thread run in between, and the
\* table of every thread stays as it was given.
C18_ResultDependsOnlyOnTable ==
  /\ \A j, k \in 1..Len(calls) :
       calls[j].input = calls[k].input =>
         /\ calls[j].raised = calls[k].raised
         /\ ~calls[j].raised => heap[calls[j].ret] = heap[calls[k].ret]
  /\ \A i \in DOMAIN threads : heap[threads[i].arg] = threads[i].input

\* a string the time rule reads neither as H:M:S nor as a duration
UnreadAsTime(s) ==
  /\ TimeOfHMSParts(s).raised
  /\ PdToTimedelta(s).raised \/ PdToTimedelta(s).v.k = "nat"

\* a string the date rule reads neither as 8 digits nor as a calendar date
UnreadAsDate(s) == ~(Len(s) = 8 /\ PyIsDigit(s)) /\ ~ParsesAsDate(s)

\* a string the zero-or-one rule reads neither as "0" or "1" nor as a token
UnreadAsZeroOne(s) ==
  /\ s \notin {<<"0">>, <<"1">>}
  /\ PyLower(s) \notin TruthyTokens \cup FalsyTokens

\* a string cell of column c, not blank, that matches none of the forms its
\* rule knows
Unrecognised(c, v) ==
  /\ IsStr(v)
  /\ PyStrip(v.s) # <<>>
  /\ \/ c \in time_cols /\ UnreadAsTime(PyStrip(v.s))
     \/ c \in date_cols /\ UnreadAsDate(PyStrip(v.s))
     \/ c \in zero_one_cols /\ UnreadAsZeroOne(PyStrip(v.s))

\* C19: in a time, date or zero-or-one column a string that matches none of
\* the rule's recognised forms comes out exactly as it went in.
C19_UnrecognisedStringUnchanged ==
  \A i \in Returned : \A p \in Cells(InTable(i)) :
    Unrecognised(InTable(i).cols[p[1]], InCell(i, p[1], p[2]))
      => OutCell(i, p[1], p[2]) = InCell(i, p[1], p[2])

\* the cell of column name in row r is missing, or the table has no such column
MissingIn(t, name, r) ==
  ~HasCol(t, name) \/ IsNaScalar(t.data[ColIndex(t, name)][r])

\* C20: for every input with a "geometry" column, also one without a
\* stop_lat or a stop_lon column: wherever the input's latitude (longitude)
\* is missing and the row's geometry exposes it, the output has a stop_lat
\* (stop_lon) column that holds the geometry's, rendered by the float rule.
C20_EnrichesWithoutLatLonColumns ==
  \A i \in Returned :
    LET t == InTable(i)
        o == OutTable(i)
    IN  HasCol(t, "geometry") =>
          \A r \in 1..NumRows(t) :
            LET g == t.data[ColIndex(t, "geometry")][r]
            IN  /\ (MissingIn(t, "stop_lat", r) /\ ExposesVertical(g))
                     => /\ HasCol(o, "stop_lat")
                        /\ o.data[ColIndex(o, "stop_lat")][r] = _to_float_str(Vertical(g)).v
                /\ (MissingIn(t, "stop_lon", r) /\ ExposesHorizontal(g))
                     => /\ HasCol(o, "stop_lon")
                        /\ o.data[ColIndex(o, "stop_lon")][r] = _to_float_str(Horizontal(g)).v

\* the finite float of sign neg, integer part ip and fraction digits fr
IsNumber(v, neg, ip, fr) == CoercesToNumber(v) /\ PyFloat(v).v = VFloat(neg, ip, fr)

\* str(v).strip()
TrimmedText(v) == PyStrip(PyStrChars(v))

\* C21: an integer-column cell that coerces to a finite number comes out as
\* the decimal text, without leading zeros, of its nearest integer, halves
\* going to the even one (0.5 gives "0", 1.5 gives "2", 2.5 gives "2", -0.4
\* gives "0", "007" gives "7"); a cell that is not null and does not coerce,
\* or cannot be rounded, comes out as its trimmed string form, "nan" and
\* "none" in any letter case as "".
C21_IntegerRule ==
  \A i \in Returned : \A p \in CellsIn(i, int_cols) :
    LET v == InCell(i, p[1], p[2])
        o == OutCell(i, p[1], p[2])
    IN  /\ CoercesToNumber(v) =>
             /\ IsIntegerText(o.s)
             /\ o.s = IntToStr(PyIntOfStr(o.s).v.n)
             /\ PyIntOfStr(o.s).v.n = RoundHalfEven(PyFloat(v).v)
        /\ IsNumber(v, FALSE, 0, <<"5">>) => o = VStr(<<"0">>)
        /\ IsNumber(v, FALSE, 1, <<"5">>) => o = VStr(<<"2">>)
        /\ IsNumber(v, FALSE, 2, <<"5">>) => o = VStr(<<"2">>)
        /\ IsNumber(v, TRUE, 0, <<"4">>) => o = VStr(<<"0">>)
        /\ v = VStr(<<"0", "0", "7">>) => o = VStr(<<"7">>)
        /\ (~IsNaScalar(v) /\ ~CoercesToNumber(v)) =>
             o = VStr(IF PyLower(TrimmedText(v)) \in {<<"n", "a", "n">>, <<"n", "o", "n", "e">>}
                      THEN <<>> ELSE TrimmedText(v))

\* an integer column holding 2.5 came out as "2"
C21_Witness ==
  \E i \in Returned : \E p \in CellsIn(i, int_cols) :
    /\ InCell(i, p[1], p[2]) = VFloat(FALSE, 2, <<"5">>)
    /\ OutCell(i, p[1], p[2]) = VStr(<<"2">>)

\* a string the time rule does not read as H:M:S and pandas reads as a duration
IsDurationText(v) ==
  /\ IsStr(v)
  /\ PyStrip(v.s) # <<>>
  /\ TimeOfHMSParts(PyStrip(v.s)).raised
  /\ ~PdToTimedelta(PyStrip(v.s)).raised
  /\ PdToTimedelta(PyStrip(v.s)).v.k = "timedelta"

\* C22: in a time column a duration, be it a pandas Timedelta, a
\* datetime.timedelta or a string that is not H:M:S and parses as a duration,
\* comes out as the hh:mm:ss of its whole seconds, hh not capped (25 hours
\* give "25:00:00"); a Timestamp, datetime or time comes out as the hh:mm:ss
\* of its time of day.
C22_DurationsAndClockTimes ==
  \A i \in Returned : \A p \in CellsIn(i, time_cols) :
    LET v == InCell(i, p[1], p[2])
        o == OutCell(i, p[1], p[2])
    IN  /\ v.k \in {"timedelta", "pytimedelta"} => IsClockOf(o.s, v.t)
        /\ (v.k \in {"timedelta", "pytimedelta"} /\ v.t = 25 * 3600)
             => o = VStr(<<"2", "5", ":", "0", "0", ":", "0", "0">>)
        /\ IsDurationText(v) => IsClockOf(o.s, PdToTimedelta(PyStrip(v.s)).v.t)
        /\ v = VStr(<<"2", "5", "h">>) => o = VStr(<<"2", "5", ":", "0", "0", ":", "0", "0">>)
        /\ v.k \in {"timestamp", "datetime", "time"}
             => /\ IsClockOf(o.s, v.t)
                /\ Len(o.s) = 8

\* the calls that were given the table an earlier call returned
SecondPasses ==
  {j \in 1..Len(calls) : \E i \in Returned : i < j /\ calls[i].ret = calls[j].arg}

\* C23: a call on the table an earlier call returned returns a table equal
\* to it, cell for cell.
C23_IdempotentOnOutput ==
  \A j \in SecondPasses :
    /\ ~calls[j].raised
    /\ OutTable(j) = InTable(j)

\* the three integers an output "a:b:c" holds
ClockParts(o) == [k \in 1..3 |-> PyIntOfStr(PySplit(o, ":")[k]).v.n]

\* C24: in a time column a string of three non-empty parts, two integers
\* and a finite number, comes out with exactly those three integers (the
\* third cut to its whole part), without range check or carry: "5:99:99"
\* gives "05:99:99" and "-1:2:3" keeps its hour -1; an int or a finite float
\* comes out with minute and second in 0..59.
C24_NoRangeCheckOnHMSText ==
  \A i \in Returned : \A p \in CellsIn(i, time_cols) :
    LET v == InCell(i, p[1], p[2])
        o == OutCell(i, p[1], p[2])
    IN  /\ IsHMSText(v) =>
             /\ Len(PySplit(o.s, ":")) = 3
             /\ \A k \in 1..3 : ~PyIntOfStr(PySplit(o.s, ":")[k]).raised
             /\ ClockParts(o.s) = HMSValues(v)
        /\ v = VStr(<<"5", ":", "9", "9", ":", "9", "9">>)
             => o = VStr(<<"0", "5", ":", "9", "9", ":", "9", "9">>)
        /\ v = VStr(<<"-", "1", ":", "2", ":", "3">>) => ClockParts(o.s) = <<-1, 2, 3>>
        /\ v.k \in {"int", "bool", "float"} =>
             /\ Len(PySplit(o.s, ":")) = 3
             /\ ClockParts(o.s)[2] \in 0..59
             /\ ClockParts(o.s)[3] \in 0..59

\* a time column holding "5:99:99" came out as "05:99:99"
C24_Witness ==
  \E i \in Returned : \E p \in CellsIn(i, time_cols) :
    /\ InCell(i, p[1], p[2]) = VStr(<<"5", ":", "9", "9", ":", "9", "9">>)
    /\ OutCell(i, p[1], p[2]) = VStr(<<"0", "5", ":", "9", "9", ":", "9", "9">>)

\* the band of a passenger total: critical above 100, high above 50,
\* medium above 20, otherwise low
BandOf(total) ==
  CASE PyGreater(total, VInt(100)) -> "critical"
    [] PyGreater(total, VInt(50)) /\ ~PyGreater(total, VInt(100)) -> "high"
    [] PyGreater(total, VInt(20)) /\ ~PyGreater(total, VInt(50)) -> "medium"
    [] OTHER -> "low"

\* parse_real_data has been through every line of raw_data
ParsedAll == line = Len(raw_data)

\* C25: once parse_real_data has processed all rows, the priority of every
\* stop is the band of its final accumulated passengers_total, also for a
\* stop on several routes whose total grew after the stop was created.
C25_PriorityIsBandOfFinalTotal ==
  ParsedAll =>
    \A i \in 1..Len(optimizer.stops) :
      optimizer.stops[i].priority = BandOf(optimizer.stops[i].passengers_total)

\* C25: parsing is over and a stop served by several routes holds more
\* passengers than its first line gave it
C25_Witness ==
  /\ ParsedAll
  /\ \E i \in 1..Len(optimizer.stops) :
       /\ Len(optimizer.stops[i].route_numbers) > 1
       /\ \E k \in 1..Len(raw_data) :
            /\ PySplit(raw_data[k], "\t")[2] = optimizer.stops[i].name
            /\ \A j \in 1..(k - 1) :
                 PySplit(raw_data[j], "\t")[2] # PySplit(raw_data[k], "\t")[2]
            /\ PyGreater(optimizer.stops[i].passengers_total,
                         PyFloatOfStr(PySplit(raw_data[k], "\t")[4]).v)

====
